---- MODULE Spec2Model ----
(***************************************************************************)
(* Workflow execution engine of automation-engine:                         *)
(*   workflow_manager/core/workflow.py   (Workflow)                        *)
(*   workflow_manager/core/context.py    (WorkflowContext)                 *)
(*   src/components/slack.py             (ReceiveMessageEvent)             *)
(*                                                                         *)
(* Strings are sequences of one-character strings, so that the regular     *)
(* expression \{\{([^}]+)\}\} and str.replace are computed, not assumed.    *)
(* A workflow is the sequence of its step configurations in the insertion   *)
(* order of the `components` dict; a step's id is its index.                *)
(***************************************************************************)
EXTENDS Integers, Sequences, FiniteSets, TLC

\* ------------------------------------------------------------------ bounds
\* Largest number of steps of a workflow handed to the dependency analyzer.
MaxSteps == 3

\* ------------------------------------------------------------------ strings
\* The text "{{a}}" for an alias a.
Tok(a) == <<"{", "{">> \o a \o <<"}", "}">>

\* Python's None as a context value or a missing result; no string equals it.
NoneVal == <<"None">>

\* `sub in text` for Python strings.
Contains(text, sub) ==
    \E i \in 1..(Len(text) - Len(sub) + 1) : SubSeq(text, i, i + Len(sub) - 1) = sub

\* First index >= i of a "}" in text, or 0.
FirstClose(text, i) ==
    LET js == {j \in i..Len(text) : text[j] = "}"}
    IN  IF js = {} THEN 0 ELSE CHOOSE j \in js : \A k \in js : j <= k

\* Index of the last character of a match of \{\{([^}]+)\}\} starting at i, or 0.
\* [^}]+ is greedy and can only stop at the first "}", which must be followed
\* by a second "}" and preceded by at least one captured character.
MatchEnd(text, i) ==
    IF i + 1 <= Len(text) /\ text[i] = "{" /\ text[i + 1] = "{"
    THEN LET j == FirstClose(text, i + 2)
         IN  IF j > i + 2 /\ j + 1 <= Len(text) /\ text[j + 1] = "}"
             THEN j + 1 ELSE 0
    ELSE 0

\* re.findall(r'\{\{([^}]+)\}\}', text): the captured groups, left to right,
\* of the non-overlapping matches.
RECURSIVE FindAllFrom(_, _)
FindAllFrom(text, i) ==
    IF i > Len(text) THEN << >>
    ELSE LET e == MatchEnd(text, i)
         IN  IF e > 0
             THEN <<SubSeq(text, i + 2, e - 2)>> \o FindAllFrom(text, e + 1)
             ELSE FindAllFrom(text, i + 1)

FindAll(text) == FindAllFrom(text, 1)

\* str.replace(old, new): every non-overlapping occurrence, left to right.
RECURSIVE ReplaceFrom(_, _, _, _)
ReplaceFrom(text, i, old, new) ==
    IF i > Len(text) THEN << >>
    ELSE IF i + Len(old) - 1 <= Len(text) /\ SubSeq(text, i, i + Len(old) - 1) = old
         THEN new \o ReplaceFrom(text, i + Len(old), old, new)
         ELSE <<text[i]>> \o ReplaceFrom(text, i + 1, old, new)

Replace(text, old, new) == ReplaceFrom(text, 1, old, new)

\* The elements of a sequence.
Range(s) == {s[i] : i \in 1..Len(s)}

\* ------------------------------------------------------------------ workflow definitions
\* Aliases and parameter texts the workflows are built from.
AliasX == <<"x">>
AliasY == <<"y">>

\* output_mapping: a dict result key -> alias, as a set of <<key, alias>> pairs
\* with distinct keys.
OutputMappings == { {}, {<<"out", AliasX>>}, {<<"out", AliasY>>} }

\* dict.values() of an output mapping.
MappingValues(om) == {p[2] : p \in om}

\* Values of the string parameter `input` of a step's config.
\* "v", "{{x}}", "{{y}}", "{{x}}-{{y}}" and the malformed "{x}}".
ParamTexts ==
    { <<"v">>, Tok(AliasX), Tok(AliasY),
      Tok(AliasX) \o <<"-">> \o Tok(AliasY),
      <<"{", "x", "}", "}">> }

\* config.get('timeout'): << >> when the key is absent, <<t>> otherwise.
NoTimeout == << >>

\* One step configuration (a value of the `components` dict).
\*   kind         "action": action_type set; "event": event_type set;
\*                "legacy": neither
\*   is_trigger   component_config.get('is_trigger', False)
\*   timeout      config.get('timeout')
\*   input        the string parameter of config
\*   output_mapping
StepConfig(kind, trig, tmo, input, om) ==
    [kind |-> kind, is_trigger |-> trig, timeout |-> tmo, input |-> input,
     output_mapping |-> om]

\* Steps that only differ in what the dependency analyzer reads.
PlainSteps ==
    {StepConfig("action", FALSE, NoTimeout, t, om) : t \in ParamTexts, om \in OutputMappings}

StepIds(comps) == 1..Len(comps)

\* ------------------------------------------------------------------ dependency analyzer
\* Workflow._build_dependency_graph: step c depends on step o when o # c and
\* a placeholder of c's string parameter is a value of o's output mapping.
\* The result is dict(dependencies): only steps with at least one dependency
\* are keys; its key order is the order of `components`.
\* DepsOf without the `other_id != component_id` test of line 49.
DepsOf_SelfEdges(comps, c) ==
    LET value == comps[c].input
    IN  {o \in StepIds(comps) :
            \E p \in Range(FindAll(value)) :
                p \in MappingValues(comps[o].output_mapping)}

\* DepsOf with, for each placeholder, only the first step in dict order that
\* publishes it (a `break` after line 53).
DepsOf_FirstProducer(comps, c) ==
    LET value == comps[c].input
    IN  IF Contains(value, <<"{", "{">>) /\ Contains(value, <<"}", "}">>)
        THEN {o \in StepIds(comps) :
                /\ o # c
                /\ \E p \in Range(FindAll(value)) :
                      /\ p \in MappingValues(comps[o].output_mapping)
                      /\ \A q \in 1..(o - 1) :
                            q = c \/ p \notin MappingValues(comps[q].output_mapping)}
        ELSE {}

DepsOf(comps, c) ==
    LET value == comps[c].input
    IN  IF Contains(value, <<"{", "{">>) /\ Contains(value, <<"}", "}">>)
        THEN {o \in StepIds(comps) :
                /\ o # c
                /\ \E p \in Range(FindAll(value)) :
                      p \in MappingValues(comps[o].output_mapping)}
        ELSE {}

BuildDependencyGraph(comps) ==
    LET keys == {c \in StepIds(comps) : DepsOf(comps, c) # {}}
    IN  [c \in keys |-> DepsOf(comps, c)]

\* ------------------------------------------------------------------ scheduler
\* The steps of `cands` in increasing (dict) order, as a sequence.
RECURSIVE InOrder(_, _, _)
InOrder(cands, i, n) ==
    IF i > n THEN << >>
    ELSE (IF i \in cands THEN <<i>> ELSE << >>) \o InOrder(cands, i + 1, n)

\* The while loop of Workflow._topological_sort (Kahn's algorithm).
RECURSIVE KahnLoop(_, _, _, _, _)
KahnLoop(n, deps, in_degree, queue, result) ==
    IF queue = << >> THEN result
    ELSE LET current == Head(queue)
             hit     == {c \in DOMAIN deps : current \in deps[c]}
             deg     == [c \in 1..n |-> IF c \in hit THEN in_degree[c] - 1
                                        ELSE in_degree[c]]
             ready   == {c \in hit : deg[c] = 0}
         IN  KahnLoop(n, deps, deg, Tail(queue) \o InOrder(ready, 1, n),
                      Append(result, current))

\* _topological_sort without lines 66-67: every in-degree stays 0.
TopologicalSort_NoInDegree(comps, deps) ==
    LET n         == Len(comps)
        in_degree == [c \in 1..n |-> 0]
        queue     == InOrder({c \in 1..n : in_degree[c] = 0}, 1, n)
        result    == KahnLoop(n, deps, in_degree, queue, << >>)
    IN  IF Len(result) # n
        THEN [ok |-> FALSE, order |-> << >>, error |-> "Circular dependency detected in workflow"]
        ELSE [ok |-> TRUE, order |-> result, error |-> ""]

\* _topological_sort without the length test of lines 85-86.
TopologicalSort_NoCycleCheck(comps, deps) ==
    LET n         == Len(comps)
        in_degree == [c \in 1..n |-> IF c \in DOMAIN deps THEN Cardinality(deps[c]) ELSE 0]
        queue     == InOrder({c \in 1..n : in_degree[c] = 0}, 1, n)
    IN  [ok |-> TRUE, order |-> KahnLoop(n, deps, in_degree, queue, << >>), error |-> ""]

\* Workflow._topological_sort: [ok |-> TRUE, order |-> ...] when it returns,
\* [ok |-> FALSE, ...] when it raises "Circular dependency detected in workflow".
TopologicalSort(comps, deps) ==
    LET n         == Len(comps)
        in_degree == [c \in 1..n |-> IF c \in DOMAIN deps THEN Cardinality(deps[c]) ELSE 0]
        queue     == InOrder({c \in 1..n : in_degree[c] = 0}, 1, n)
        result    == KahnLoop(n, deps, in_degree, queue, << >>)
    IN  IF Len(result) # n
        THEN [ok |-> FALSE, order |-> << >>, error |-> "Circular dependency detected in workflow"]
        ELSE [ok |-> TRUE, order |-> result, error |-> ""]

\* ------------------------------------------------------------------ state
VARIABLES
    components,     \* Workflow.components: the step configurations, in dict order
    phase,          \* "new", "constructed" or the message of the ValueError of __init__
    dependencies,   \* Workflow.dependencies
    sorted,         \* what a direct call of _topological_sort gave (NotCalled before)
    data,           \* WorkflowContext._data
    main,           \* the thread that calls Workflow.execute: its locals and return value
    events,         \* the ReceiveMessageEvent objects created so far
    cycles,         \* the invocations of ReceiveMessageEvent._handle_message so far
    cleanup,        \* the calls of Workflow.cleanup made by the caller of execute()
    pending,        \* the texts of the Slack messages not yet delivered
    lock,           \* WorkflowContext._lock: 0 when free, else the thread holding it
    threads,        \* the threads that call the WorkflowContext directly
    cli,            \* the command execute_workflow of the CLI: its control point
    stops           \* the calls of ReceiveMessageEvent.stop_listening so far

vars == <<components, phase, dependencies, sorted, data, main, events, cycles,
          cleanup, pending, lock, threads, cli, stops>>

NotCalled == [called |-> FALSE, ok |-> FALSE, order |-> << >>, error |-> ""]

EmptyData == [a \in {} |-> NoneVal]

NoResult == [success |-> FALSE, fields |-> {}, error |-> << >>]

\* The caller's use of cleanup(): the number of calls that returned, whether
\* a call raised, "deadlock" when a call blocks for ever, and the event
\* objects the last call created (they are dropped by the next call).
NoCleanup == [calls |-> 0, pc |-> "idle", raised |-> FALSE, made |-> << >>]

\* The CLI command before it is started.
\*   pc          control point of execute_workflow (execute_workflow.py 79-99)
\*   interrupts  the KeyboardInterrupts delivered to it
\*   handler     "none", "inner" (line 156) or "outer" (line 91): the except
\*               clause that caught the last one
\*   started     the calls of workflow.cleanup() it began
\*   seen        cleanup.calls when the call in progress, if any, began
CliIdle == [pc |-> "idle", interrupts |-> 0, handler |-> "none", started |-> 0, seen |-> 0]

\* The locals of execute() before it is called.
\*   pc      control point         mode    "none", "batch" or "reactive"
\*   log     the _execute_component calls made by this thread, in order
\*   cur     index in `events` of the event being started (reactive path)
\*   ret     the dict execute() returned
MainIdle ==
    [pc |-> "idle", mode |-> "none", execution_order |-> << >>,
     persistent_triggers |-> << >>, action_components |-> << >>,
     idx |-> 1, log |-> << >>, results |-> {}, cur |-> 0,
     ret |-> [success |-> FALSE, error |-> "", reports |-> FALSE,
              persistent_triggers |-> << >>, action_components |-> << >>,
              results |-> {}, context |-> EmptyData]]

\* ------------------------------------------------------------------ construction
\* The message of the ValueError of line 30.
NoComponentsError == "Workflow has no components"

\* Workflow.__init__ constructing a definition without steps.
Construct_AcceptsEmpty ==
    /\ phase = "new"
    /\ phase' = "constructed"
    /\ dependencies' = BuildDependencyGraph(components)
    /\ UNCHANGED <<lock, threads, cli, stops, cleanup, pending, components, sorted, data, main, events, cycles>>

\* Workflow.__init__: raises ValueError("Workflow has no components") for an
\* empty definition, otherwise builds the dependency graph.  It does not sort.
Construct ==
    /\ phase = "new"
    /\ IF components = << >>
       THEN /\ phase' = NoComponentsError
            /\ UNCHANGED dependencies
       ELSE /\ phase' = "constructed"
            /\ dependencies' = BuildDependencyGraph(components)
    /\ UNCHANGED <<lock, threads, cli, stops, cleanup, pending, components, sorted, data, main, events, cycles>>

\* A direct call of Workflow._topological_sort on a constructed workflow.
CallTopologicalSort ==
    /\ phase = "constructed"
    /\ ~sorted.called
    /\ LET r == TopologicalSort(components, dependencies)
       IN  sorted' = [called |-> TRUE, ok |-> r.ok, order |-> r.order, error |-> r.error]
    /\ UNCHANGED <<lock, threads, cli, stops, cleanup, pending, components, phase, dependencies, data, main, events, cycles>>

\* ------------------------------------------------------------------ the analyzer's inputs
\* Every sequence of at most n elements of S.
RECURSIVE SeqsUpTo(_, _)
SeqsUpTo(S, n) ==
    IF n = 0 THEN {<< >>}
    ELSE LET shorter == SeqsUpTo(S, n - 1)
         IN  shorter \cup {Append(s, x) : s \in {t \in shorter : Len(t) = n - 1}, x \in S}

GraphWorkflows == SeqsUpTo(PlainSteps, MaxSteps)

GraphInit ==
    /\ components \in GraphWorkflows
    /\ phase = "new"
    /\ dependencies = [c \in {} |-> {}]
    /\ sorted = NotCalled
    /\ data = EmptyData
    /\ main = MainIdle
    /\ events = << >>
    /\ cycles = << >>
    /\ cleanup = NoCleanup
    /\ pending = << >>
    /\ lock = 0
    /\ threads = << >>
    /\ cli = CliIdle
    /\ stops = << >>

GraphNext == Construct \/ CallTopologicalSort

\* Construction and sorting of every workflow of GraphWorkflows.
SpecGraph == GraphInit /\ [][GraphNext]_vars

\* ------------------------------------------------------------------ bounds of the engine runs
\* Largest number of steps of a workflow that is executed.
MaxEngineSteps == 2

\* Largest number of Slack messages delivered to the listeners of a run.
MaxMessages == 1

\* Largest number of calls of cleanup() on one workflow.
MaxCleanups == 2

\* ------------------------------------------------------------------ shared context
\* WorkflowContext.set
ContextSet(d, k, v) == [a \in (DOMAIN d) \cup {k} |-> IF a = k THEN v ELSE d[a]]

\* dict.get(k): None for a missing key.
ContextGet(d, k) == IF k \in DOMAIN d THEN d[k] ELSE NoneVal

\* WorkflowContext.get_all: a copy of the mapping.
ContextGetAll(d) == d

\* str(v) of a value that is a string.
Str(v) == v

\* ------------------------------------------------------------------ _execute_component
\* The loop of lines 130-134: each placeholder found in the original value is
\* replaced in the value resolved so far, unless the context has None for it.
RECURSIVE ResolveLoop(_, _, _, _)
ResolveLoop(resolved_value, placeholders, i, d) ==
    IF i > Len(placeholders) THEN resolved_value
    ELSE LET context_value == ContextGet(d, placeholders[i])
         IN  ResolveLoop(IF context_value # NoneVal
                         THEN Replace(resolved_value, Tok(placeholders[i]), Str(context_value))
                         ELSE resolved_value,
                         placeholders, i + 1, d)

\* Lines 124-137 with the parameter passed on as configured.
ResolveParam_Verbatim(value, d) == value

\* Lines 124-137 for the string parameter of a step.
ResolveParam(value, d) ==
    IF Contains(value, <<"{", "{">>) /\ Contains(value, <<"}", "}">>)
    THEN ResolveLoop(value, FindAll(value), 1, d)
    ELSE value

\* Lines 173-177: result[original_key] is stored under custom_key for every
\* entry of the output mapping whose original_key is in the result.  `fields`
\* is the result (or the message payload) as a set of <<key, value>> pairs.
StoreOutputs(d, om, fields) ==
    LET writes == {<<pf[1][2], pf[2][2]>> : pf \in {q \in om \X fields : q[1][1] = q[2][1]}}
        keys   == {w[1] : w \in writes}
    IN  [a \in (DOMAIN d) \cup keys |->
            IF a \in keys THEN (CHOOSE w \in writes : w[1] = a)[2] ELSE d[a]]

\* The text of the k-th Slack message of a run, and of the message a one-shot
\* trigger receives before its deadline.
MsgTexts == << <<"m">>, <<"n">>, <<"o">> >>

\* The first n messages Slack delivers.
Messages(n) == [i \in 1..n |-> MsgTexts[((i - 1) % Len(MsgTexts)) + 1]]
OneShotText == <<"s">>

\* message_data of ReceiveMessageEvent._handle_message (slack.py 267-273),
\* reduced to the field 'message_text' ("out").
MessageData(text) == [success |-> TRUE, fields |-> {<<"out", text>>}, error |-> << >>]

\* config.get('timeout', 0): a missing timeout taken for a finite one.
TimeoutOf_DefaultZero(cfg) == IF cfg.timeout = NoTimeout THEN 0 ELSE cfg.timeout[1]

\* config.get('timeout', -1)
TimeoutOf(cfg) == IF cfg.timeout = NoTimeout THEN -1 ELSE cfg.timeout[1]

\* An outcome of one dispatch: the call raised, or returned `result`;
\* `listener` tells that a ReceiveMessageEvent was created whose listener
\* thread was started, `queued` what its message_queue held when the wait of
\* execute() ended.
Outcome(raised, result, listener, queued) ==
    [raised |-> raised, result |-> result, listener |-> listener, queued |-> queued]

\* The failure result of slack.py 383-390; its error names the timeout.
TimeoutFailure(t) ==
    [success |-> FALSE, fields |-> {<<"out", << >> >>},
     error |-> <<"No matching message received within", ToString(t), "seconds">>]

\* Lines 383-390 with an error text that does not name the timeout.
EventExecute_TimeoutUnnamed(cfg, queue) ==
    IF queue # << >> THEN Head(queue)
    ELSE [success |-> FALSE, fields |-> {<<"out", << >> >>}, error |-> <<"timed out">>]

\* ReceiveMessageEvent.execute from line 346 on an event without callback,
\* whose message_queue holds `queue` when the wait ends: the first queued
\* message is returned; an empty queue after a finite timeout gives the
\* timeout failure (with timeout -1 the wait only ends with a message).
EventExecute(cfg, queue) ==
    IF queue # << >> THEN Head(queue)
    ELSE TimeoutFailure(TimeoutOf(cfg))

\* What message_queue can hold when the wait of execute() ends.
EventQueues(cfg) ==
    IF TimeoutOf(cfg) = -1
    THEN { <<MessageData(OneShotText)>> }
    ELSE { << >>, <<MessageData(OneShotText)>> }

\* What action.execute / event.execute can do for a step whose parameter
\* resolved to `resolved` (workflow.py 150-171).
\*   action: raises (e.g. "Message is required"), returns a failure result, or
\*           returns success with its output computed from the parameter;
\*   event (ReceiveMessageEvent.execute without a callback, slack.py 320-399):
\*           raises before any thread is started, or starts the listener and
\*           returns what EventExecute gives for the queue;
\*   neither: the legacy result.
DispatchOutcomes(cfg, resolved) ==
    IF cfg.kind = "action"
    THEN { Outcome(TRUE, NoResult, FALSE, << >>),
           Outcome(FALSE, [success |-> FALSE, fields |-> {}, error |-> <<"failed">>], FALSE, << >>),
           Outcome(FALSE, [success |-> TRUE, fields |-> {<<"out", resolved>>}, error |-> << >>],
                   FALSE, << >>) }
    ELSE IF cfg.kind = "event"
    THEN { Outcome(TRUE, NoResult, FALSE, << >>) }
         \cup { Outcome(FALSE, EventExecute(cfg, q), TRUE, q) : q \in EventQueues(cfg) }
    ELSE { Outcome(FALSE, [success |-> TRUE, fields |-> {}, error |-> << >>], FALSE, << >>) }

\* One entry of a thread's log of _execute_component calls: the step, the
\* parameter it was dispatched with, how the call ended, and the call site
\* ("classify": line 229, "batch": line 247, "cycle": line 292).
LogEntry(c, resolved, o, via) ==
    [step |-> c, input |-> resolved, raised |-> o.raised, result |-> o.result,
     queued |-> o.queued, via |-> via]

\* A ReceiveMessageEvent object (slack.py 206-213) of step c.
\*   origin    "reactive": created by _execute_reactive_workflow;
\*             "component": created by _execute_component
\*   thread    "none", "started" (before connect), "connected", "exited"
NewEvent(c, origin) ==
    [step |-> c, origin |-> origin, workflow_callback |-> FALSE,
     is_listening |-> FALSE, thread |-> "none", stop_event |-> FALSE,
     message_queue |-> << >>]

\* The event left behind by a dispatch of an event step through
\* _execute_component: its listener thread runs on, connected.
LeftBehind(evs, c, o) ==
    IF o.listener
    THEN Append(evs, [NewEvent(c, "component") EXCEPT !.thread = "connected",
                                                       !.is_listening = TRUE])
    ELSE evs

\* ReceiveMessageEvent.stop_listening (slack.py 401-410): the flags are set;
\* the join of line 408 waits at most 5 s and changes nothing.
StopListening(ev) == [ev EXCEPT !.is_listening = FALSE, !.stop_event = TRUE]

\* ReceiveMessageEvent.is_running (slack.py 412-414).
IsRunning(ev) == ev.is_listening /\ ev.thread \in {"started", "connected"}

\* Whether storing `fields` under the mapping om calls context.set at all.
CallsSet(om, fields) == \E p \in om : \E f \in fields : f[1] = p[1]

\* A thread blocked for ever inside resolve_placeholders keeps the context's
\* lock: every later context.set blocks.
LockStuck == main.pc = "deadlock" \/ cleanup.pc = "deadlock"

\* ------------------------------------------------------------------ execute()
\* The dict execute() returns on the error paths (lines 231-235, 261-265,
\* 326-330).
Failure(error, d) ==
    [success |-> FALSE, error |-> error, reports |-> FALSE,
     persistent_triggers |-> << >>, action_components |-> << >>,
     results |-> {}, context |-> ContextGetAll(d)]

\* results[component_id] = result
ResultsPut(rs, c, r) == {e \in rs : e[1] # c} \cup {<<c, r>>}

\* execute() going on with the order of a failed sort.
Execute_IgnoresCycle ==
    /\ phase = "constructed"
    /\ main.pc = "idle"
    /\ cleanup = NoCleanup
    /\ LET r == KahnLoop(Len(components), dependencies,
                         [c \in StepIds(components) |->
                            IF c \in DOMAIN dependencies THEN Cardinality(dependencies[c]) ELSE 0],
                         InOrder({c \in StepIds(components) : c \notin DOMAIN dependencies},
                                 1, Len(components)),
                         << >>)
       IN  main' = [main EXCEPT !.pc = "classify", !.execution_order = r, !.idx = 1]
    /\ UNCHANGED <<lock, threads, cli, stops, cleanup, pending, components, phase, dependencies, sorted, data, events, cycles>>

\* execute() is called, on a workflow that was not cleaned up before; line
\* 213 sorts.  A cycle raises inside the try block and execute() returns the
\* error dict of lines 261-265.
Execute ==
    /\ phase = "constructed"
    /\ main.pc = "idle"
    /\ cleanup = NoCleanup
    /\ LET r == TopologicalSort(components, dependencies)
       IN  IF r.ok
           THEN main' = [main EXCEPT !.pc = "classify", !.execution_order = r.order, !.idx = 1]
           ELSE main' = [main EXCEPT !.pc = "returned", !.ret = Failure(r.error, data)]
    /\ UNCHANGED <<lock, threads, cli, stops, cleanup, pending, components, phase, dependencies, sorted, data, events, cycles>>

\* One iteration of the loop of lines 219-237 that dispatches nothing: a
\* trigger whose timeout is absent or -1 joins persistent_triggers, a step
\* that is no trigger joins action_components.
ClassifyStep ==
    /\ main.pc = "classify"
    /\ main.idx <= Len(main.execution_order)
    /\ LET c   == main.execution_order[main.idx]
           cfg == components[c]
       IN  /\ ~(cfg.is_trigger /\ TimeoutOf(cfg) # -1)
           /\ IF cfg.is_trigger
              THEN main' = [main EXCEPT !.persistent_triggers = Append(@, c), !.idx = @ + 1]
              ELSE main' = [main EXCEPT !.action_components = Append(@, c), !.idx = @ + 1]
    /\ UNCHANGED <<lock, threads, cli, stops, cleanup, pending, components, phase, dependencies, sorted, data, events, cycles>>

\* Lines 228-235 without the test of the trigger's result.
ClassifyOneShot_IgnoresFailure ==
    /\ main.pc = "classify"
    /\ main.idx <= Len(main.execution_order)
    /\ LET c        == main.execution_order[main.idx]
           cfg      == components[c]
           resolved == ResolveParam(cfg.input, data)
       IN  /\ cfg.is_trigger /\ TimeoutOf(cfg) # -1
           /\ \E o \in DispatchOutcomes(cfg, resolved) :
                 LET d2  == IF o.raised THEN data
                            ELSE StoreOutputs(data, cfg.output_mapping, o.result.fields)
                     log == Append(main.log, LogEntry(c, resolved, o, "classify"))
                 IN  /\ data' = d2
                     /\ events' = LeftBehind(events, c, o)
                     /\ main' =
                          IF o.raised
                          THEN [main EXCEPT !.pc = "returned", !.log = log,
                                            !.ret = Failure("exception", d2)]
                          ELSE [main EXCEPT !.log = log, !.idx = @ + 1]
    /\ UNCHANGED <<lock, threads, cli, stops, cleanup, pending, components, phase, dependencies, sorted, cycles>>

\* The iteration for a trigger with a finite timeout (lines 228-235): it is
\* executed at once; a result without success ends execute(), a raise is
\* caught at line 257.
ClassifyOneShot ==
    /\ main.pc = "classify"
    /\ main.idx <= Len(main.execution_order)
    /\ LET c        == main.execution_order[main.idx]
           cfg      == components[c]
           resolved == ResolveParam(cfg.input, data)
       IN  /\ cfg.is_trigger /\ TimeoutOf(cfg) # -1
           /\ \E o \in DispatchOutcomes(cfg, resolved) :
                 LET d2  == IF o.raised THEN data
                            ELSE StoreOutputs(data, cfg.output_mapping, o.result.fields)
                     log == Append(main.log, LogEntry(c, resolved, o, "classify"))
                 IN  /\ data' = d2
                     /\ events' = LeftBehind(events, c, o)
                     /\ main' =
                          IF o.raised
                          THEN [main EXCEPT !.pc = "returned", !.log = log,
                                            !.ret = Failure("exception", d2)]
                          ELSE IF ~o.result.success
                          THEN [main EXCEPT !.pc = "returned", !.log = log,
                                            !.ret = Failure("trigger failed", d2)]
                          ELSE [main EXCEPT !.log = log, !.idx = @ + 1]
    /\ UNCHANGED <<lock, threads, cli, stops, cleanup, pending, components, phase, dependencies, sorted, cycles>>

\* Line 240: the reactive path when persistent_triggers is not empty, the
\* traditional loop otherwise.
ChooseMode ==
    /\ main.pc = "classify"
    /\ main.idx > Len(main.execution_order)
    /\ main' = IF main.persistent_triggers # << >>
               THEN [main EXCEPT !.pc = "reactive", !.mode = "reactive", !.idx = 1]
               ELSE [main EXCEPT !.pc = "batch", !.mode = "batch", !.idx = 1]
    /\ UNCHANGED <<lock, threads, cli, stops, cleanup, pending, components, phase, dependencies, sorted, data, events, cycles>>

\* Lines 245-248 with the raise of a step caught inside the loop.
BatchStep_ContinuesOnRaise ==
    /\ main.pc = "batch"
    /\ main.idx <= Len(main.execution_order)
    /\ LET c        == main.execution_order[main.idx]
           cfg      == components[c]
           resolved == ResolveParam(cfg.input, data)
       IN  \E o \in DispatchOutcomes(cfg, resolved) :
              /\ data' = IF o.raised THEN data
                         ELSE StoreOutputs(data, cfg.output_mapping, o.result.fields)
              /\ events' = LeftBehind(events, c, o)
              /\ main' = [main EXCEPT !.log = Append(@, LogEntry(c, resolved, o, "batch")),
                                      !.idx = @ + 1,
                                      !.results = IF o.raised THEN @
                                                  ELSE ResultsPut(@, c, o.result)]
    /\ UNCHANGED <<lock, threads, cli, stops, cleanup, pending, components, phase, dependencies, sorted, cycles>>

\* Lines 245-248 and 261-265 returning the context as it was before the run.
BatchStep_NoSnapshot ==
    /\ main.pc = "batch"
    /\ main.idx <= Len(main.execution_order)
    /\ LET c        == main.execution_order[main.idx]
           cfg      == components[c]
           resolved == ResolveParam(cfg.input, data)
       IN  \E o \in DispatchOutcomes(cfg, resolved) :
              LET d2  == IF o.raised THEN data
                         ELSE StoreOutputs(data, cfg.output_mapping, o.result.fields)
                  log == Append(main.log, LogEntry(c, resolved, o, "batch"))
              IN  /\ data' = d2
                  /\ events' = LeftBehind(events, c, o)
                  /\ main' =
                       IF o.raised
                       THEN [main EXCEPT !.pc = "returned", !.log = log,
                                         !.ret = Failure("exception", EmptyData)]
                       ELSE [main EXCEPT !.log = log, !.idx = @ + 1,
                                         !.results = ResultsPut(@, c, o.result)]
    /\ UNCHANGED <<lock, threads, cli, stops, cleanup, pending, components, phase, dependencies, sorted, cycles>>

\* The loop of lines 245-248 with the test of lines 230-235 applied to every
\* step: a result without success ends the run with success=false.
BatchStep_StopsOnFailure ==
    /\ main.pc = "batch"
    /\ main.idx <= Len(main.execution_order)
    /\ LET c        == main.execution_order[main.idx]
           cfg      == components[c]
           resolved == ResolveParam(cfg.input, data)
       IN  \E o \in DispatchOutcomes(cfg, resolved) :
              LET d2  == IF o.raised THEN data
                         ELSE StoreOutputs(data, cfg.output_mapping, o.result.fields)
                  log == Append(main.log, LogEntry(c, resolved, o, "batch"))
              IN  /\ data' = d2
                  /\ events' = LeftBehind(events, c, o)
                  /\ main' =
                       IF o.raised \/ ~o.result.success
                       THEN [main EXCEPT !.pc = "returned", !.log = log,
                                         !.ret = Failure("exception", d2)]
                       ELSE [main EXCEPT !.log = log, !.idx = @ + 1,
                                         !.results = ResultsPut(@, c, o.result)]
    /\ UNCHANGED <<lock, threads, cli, stops, cleanup, pending, components, phase, dependencies, sorted, cycles>>

\* One iteration of the loop of lines 245-248: every step of execution_order
\* is executed; a raise is caught at line 257.
BatchStep ==
    /\ main.pc = "batch"
    /\ main.idx <= Len(main.execution_order)
    /\ LET c        == main.execution_order[main.idx]
           cfg      == components[c]
           resolved == ResolveParam(cfg.input, data)
       IN  \E o \in DispatchOutcomes(cfg, resolved) :
              LET d2  == IF o.raised THEN data
                         ELSE StoreOutputs(data, cfg.output_mapping, o.result.fields)
                  log == Append(main.log, LogEntry(c, resolved, o, "batch"))
              IN  /\ data' = d2
                  /\ events' = LeftBehind(events, c, o)
                  /\ main' =
                       IF o.raised
                       THEN [main EXCEPT !.pc = "returned", !.log = log,
                                         !.ret = Failure("exception", d2)]
                       ELSE [main EXCEPT !.log = log, !.idx = @ + 1,
                                         !.results = ResultsPut(@, c, o.result)]
    /\ UNCHANGED <<lock, threads, cli, stops, cleanup, pending, components, phase, dependencies, sorted, cycles>>

\* Lines 250-255.
BatchReturn ==
    /\ main.pc = "batch"
    /\ main.idx > Len(main.execution_order)
    /\ main' = [main EXCEPT !.pc = "returned",
                            !.ret = [success |-> TRUE, error |-> "", reports |-> FALSE,
                                     persistent_triggers |-> << >>,
                                     action_components |-> << >>,
                                     results |-> main.results,
                                     context |-> ContextGetAll(data)]]
    /\ UNCHANGED <<lock, threads, cli, stops, cleanup, pending, components, phase, dependencies, sorted, data, events, cycles>>

\* ------------------------------------------------------------------ _execute_reactive_workflow
\* Lines 307-314 for the next persistent trigger: the component and the event
\* are created.  context.resolve_config (context.py 53-68) calls
\* resolve_placeholders, which holds the context's lock while re.sub calls
\* self.get for each token: with a token in the trigger's parameter the
\* thread blocks on its own lock.
ReactiveCreate ==
    /\ main.pc = "reactive"
    /\ main.idx <= Len(main.persistent_triggers)
    /\ LET c == main.persistent_triggers[main.idx]
       IN  IF FindAll(components[c].input) # << >>
           THEN /\ main' = [main EXCEPT !.pc = "deadlock"]
                /\ UNCHANGED events
           ELSE /\ events' = Append(events, NewEvent(c, "reactive"))
                /\ main' = [main EXCEPT !.pc = "reactive_setcb", !.cur = Len(events) + 1]
    /\ UNCHANGED <<lock, threads, cli, stops, cleanup, pending, components, phase, dependencies, sorted, data, cycles>>

\* Lines 317-319 without the call of set_workflow_callback.
SetWorkflowCallback_Skipped ==
    /\ main.pc = "reactive_setcb"
    /\ main' = [main EXCEPT !.pc = "reactive_exec"]
    /\ UNCHANGED <<lock, threads, cli, stops, cleanup, pending, components, phase, dependencies, sorted, data, events, cycles>>

\* Lines 317-319: event.set_workflow_callback(callback).
SetWorkflowCallback ==
    /\ main.pc = "reactive_setcb"
    /\ events' = [events EXCEPT ![main.cur].workflow_callback = TRUE]
    /\ main' = [main EXCEPT !.pc = "reactive_exec"]
    /\ UNCHANGED <<lock, threads, cli, stops, cleanup, pending, components, phase, dependencies, sorted, data, cycles>>

\* ReceiveMessageEvent.execute up to line 343: it raises when the channel or
\* the socket client is missing (caught at workflow.py 257); otherwise it
\* starts the listener thread unless the event is already listening.
EventExecuteStart ==
    /\ main.pc = "reactive_exec"
    /\ \/ /\ main' = [main EXCEPT !.pc = "returned", !.ret = Failure("exception", data)]
          /\ UNCHANGED events
       \/ /\ events' = IF events[main.cur].is_listening THEN events
                       ELSE [events EXCEPT ![main.cur].stop_event = FALSE,
                                           ![main.cur].thread = "started"]
          /\ main' = [main EXCEPT !.pc = "reactive_sleep"]
    /\ UNCHANGED <<lock, threads, cli, stops, cleanup, pending, components, phase, dependencies, sorted, data, cycles>>

\* ReceiveMessageEvent.execute from line 346 for timeout -1, and lines
\* 325-330 of the engine: with a callback it returns success at once; without
\* one it waits for the first queued message and returns it.
EventExecuteReturn ==
    /\ main.pc = "reactive_sleep"
    /\ IF events[main.cur].workflow_callback
       THEN UNCHANGED events
       ELSE /\ events[main.cur].message_queue # << >>
            /\ events' = [events EXCEPT ![main.cur].message_queue = Tail(@)]
    /\ main' = [main EXCEPT !.pc = "reactive", !.idx = @ + 1]
    /\ UNCHANGED <<lock, threads, cli, stops, cleanup, pending, components, phase, dependencies, sorted, data, cycles>>

\* Lines 332-340 returning the bare success message.
ReactiveReturn_BareMessage ==
    /\ main.pc = "reactive"
    /\ main.idx > Len(main.persistent_triggers)
    /\ main' = [main EXCEPT !.pc = "returned",
                            !.ret = [success |-> TRUE, error |-> "", reports |-> FALSE,
                                     persistent_triggers |-> << >>,
                                     action_components |-> << >>,
                                     results |-> {},
                                     context |-> ContextGetAll(data)]]
    /\ UNCHANGED <<lock, threads, cli, stops, cleanup, pending, components, phase, dependencies, sorted, data, events, cycles>>

\* Lines 332-340.
ReactiveReturn ==
    /\ main.pc = "reactive"
    /\ main.idx > Len(main.persistent_triggers)
    /\ main' = [main EXCEPT !.pc = "returned",
                            !.ret = [success |-> TRUE, error |-> "", reports |-> TRUE,
                                     persistent_triggers |-> main.persistent_triggers,
                                     action_components |-> main.action_components,
                                     results |-> {},
                                     context |-> ContextGetAll(data)]]
    /\ UNCHANGED <<lock, threads, cli, stops, cleanup, pending, components, phase, dependencies, sorted, data, events, cycles>>

\* ------------------------------------------------------------------ listener thread and callback
\* ReceiveMessageEvent._start_listening, lines 298-304: the handler is
\* registered, the socket connects, is_listening becomes True.
ListenerConnect(e) ==
    /\ events[e].thread = "started"
    /\ events' = [events EXCEPT ![e].thread = "connected", ![e].is_listening = TRUE]
    /\ UNCHANGED <<lock, threads, cli, stops, cleanup, pending, components, phase, dependencies, sorted, data, main, cycles>>

\* Lines 310-318: connect() raised; the thread ends.
ListenerConnectFails(e) ==
    /\ events[e].thread = "started"
    /\ events' = [events EXCEPT ![e].thread = "exited", ![e].is_listening = FALSE]
    /\ UNCHANGED <<lock, threads, cli, stops, cleanup, pending, components, phase, dependencies, sorted, data, main, cycles>>

\* _handle_message with a callback that does not publish the payload.
HandleMessage_NoPayloadWrite(e) ==
    /\ events[e].origin = "reactive"
    /\ events[e].thread = "connected"
    /\ pending # << >>
    /\ LET msg == MessageData(Head(pending))
           c   == events[e].step
           cb  == events[e].workflow_callback
       IN  /\ events' = [events EXCEPT ![e].message_queue = Append(@, msg)]
           /\ pending' = Tail(pending)
           /\ cycles' = Append(cycles,
                 [event |-> e, trigger |-> c, payload |-> msg.fields,
                  callback |-> cb,
                  pc |-> IF cb /\ main.action_components # << >> THEN "running" ELSE "done",
                  idx |-> 1, log |-> << >>])
    /\ UNCHANGED <<lock, threads, cli, stops, cleanup, components, phase, dependencies, sorted, data, main>>

\* ReceiveMessageEvent._handle_message for a matching message (lines 267-290)
\* on the connected listener of a persistent trigger: the message is queued;
\* with a callback set, workflow_callback starts and writes the payload under
\* the trigger's aliases (workflow.py 281-284); without one the message is
\* only queued.  The callback blocks in context.set when the lock is stuck.
HandleMessage(e) ==
    /\ events[e].origin = "reactive"
    /\ events[e].thread = "connected"
    /\ pending # << >>
    /\ LET msg   == MessageData(Head(pending))
           c     == events[e].step
           cb    == events[e].workflow_callback
           stuck == cb /\ CallsSet(components[c].output_mapping, msg.fields) /\ LockStuck
       IN  /\ events' = [events EXCEPT ![e].message_queue = Append(@, msg)]
           /\ pending' = Tail(pending)
           /\ cycles' = Append(cycles,
                 [event |-> e, trigger |-> c, payload |-> msg.fields,
                  callback |-> cb,
                  pc |-> IF stuck THEN "blocked"
                         ELSE IF cb /\ main.action_components # << >> THEN "running"
                         ELSE "done",
                  idx |-> 1, log |-> << >>])
           /\ data' = IF cb /\ ~stuck
                      THEN StoreOutputs(data, components[c].output_mapping, msg.fields)
                      ELSE data
    /\ UNCHANGED <<lock, threads, cli, stops, cleanup, components, phase, dependencies, sorted, main>>

\* The loop of workflow.py 287-301 with the try around the whole loop: a
\* raise ends the cycle.
CycleStep_StopsOnRaise(k) ==
    /\ cycles[k].pc = "running"
    /\ LET c        == main.action_components[cycles[k].idx]
           cfg      == components[c]
           resolved == ResolveParam(cfg.input, data)
       IN  \E o \in DispatchOutcomes(cfg, resolved) :
              /\ data' = IF o.raised THEN data
                         ELSE StoreOutputs(data, cfg.output_mapping, o.result.fields)
              /\ events' = LeftBehind(events, c, o)
              /\ cycles' = [cycles EXCEPT
                    ![k].log = Append(@, LogEntry(c, resolved, o, "cycle")),
                    ![k].idx = @ + 1,
                    ![k].pc  = IF o.raised \/ cycles[k].idx + 1 > Len(main.action_components)
                               THEN "done" ELSE "running"]
    /\ UNCHANGED <<lock, threads, cli, stops, cleanup, pending, components, phase, dependencies, sorted, main>>

\* The loop of workflow.py 287-301 without any try: the exception leaves the
\* callback and _handle_message and ends the listener.
CycleStep_FaultEndsListener(k) ==
    /\ cycles[k].pc = "running"
    /\ LET c        == main.action_components[cycles[k].idx]
           cfg      == components[c]
           resolved == ResolveParam(cfg.input, data)
       IN  \E o \in DispatchOutcomes(cfg, resolved) :
              /\ data' = IF o.raised THEN data
                         ELSE StoreOutputs(data, cfg.output_mapping, o.result.fields)
              /\ events' = IF o.raised
                           THEN [events EXCEPT ![cycles[k].event].thread = "exited",
                                               ![cycles[k].event].is_listening = FALSE]
                           ELSE LeftBehind(events, c, o)
              /\ cycles' = [cycles EXCEPT
                    ![k].log = Append(@, LogEntry(c, resolved, o, "cycle")),
                    ![k].idx = @ + 1,
                    ![k].pc  = IF o.raised \/ cycles[k].idx + 1 > Len(main.action_components)
                               THEN "done" ELSE "running"]
    /\ UNCHANGED <<lock, threads, cli, stops, cleanup, pending, components, phase, dependencies, sorted, main>>

\* One iteration of the loop of workflow.py 287-301 in callback k: the next
\* action component is executed; a raise is caught and logged, and the loop
\* goes on.  The storing of an output blocks when the lock is stuck.
CycleStep(k) ==
    /\ cycles[k].pc = "running"
    /\ LET c        == main.action_components[cycles[k].idx]
           cfg      == components[c]
           resolved == ResolveParam(cfg.input, data)
       IN  \E o \in DispatchOutcomes(cfg, resolved) :
              LET stuck == /\ ~o.raised
                           /\ CallsSet(cfg.output_mapping, o.result.fields)
                           /\ LockStuck
              IN  /\ data' = IF o.raised \/ stuck THEN data
                             ELSE StoreOutputs(data, cfg.output_mapping, o.result.fields)
                  /\ events' = LeftBehind(events, c, o)
                  /\ cycles' = [cycles EXCEPT
                        ![k].log = Append(@, LogEntry(c, resolved, o, "cycle")),
                        ![k].idx = @ + 1,
                        ![k].pc  = IF stuck THEN "blocked"
                                   ELSE IF cycles[k].idx + 1 > Len(main.action_components)
                                   THEN "done" ELSE "running"]
    /\ UNCHANGED <<lock, threads, cli, stops, cleanup, pending, components, phase, dependencies, sorted, main>>

\* ------------------------------------------------------------------ cleanup()
\* The loop of workflow.py 190-205 from step i of the dict order on.  For
\* every event step that is a trigger a new component and a new event are
\* created and stop_listening is called on that new event; an exception
\* (steps of `failing`) is caught and logged.  context.resolve_config blocks
\* for ever on a parameter with a token (context.py 50-51).
RECURSIVE CleanupLoop(_, _, _)
CleanupLoop(i, failing, evs) ==
    IF i > Len(components) THEN [events |-> evs, stuck |-> FALSE]
    ELSE IF ~(components[i].kind = "event" /\ components[i].is_trigger)
    THEN CleanupLoop(i + 1, failing, evs)
    ELSE IF i \in failing
    THEN CleanupLoop(i + 1, failing, evs)
    ELSE IF FindAll(components[i].input) # << >>
    THEN [events |-> evs, stuck |-> TRUE]
    ELSE CleanupLoop(i + 1, failing, Append(evs, StopListening(NewEvent(i, "cleanup"))))

\* The steps cleanup() handles.
CleanupSteps ==
    {i \in StepIds(components) : components[i].kind = "event" /\ components[i].is_trigger}

\* cleanup() without the try of lines 193-205: the exception leaves cleanup().
Cleanup_Unguarded ==
    /\ phase = "constructed"
    /\ main.pc \in {"idle", "returned"}
    /\ cleanup.pc = "idle"
    /\ cleanup.calls < MaxCleanups
    /\ \E failing \in SUBSET CleanupSteps :
          LET r == CleanupLoop(1, failing, << >>)
          IN  cleanup' = IF r.stuck
                         THEN [cleanup EXCEPT !.pc = "deadlock", !.made = r.events]
                         ELSE [cleanup EXCEPT !.calls = @ + 1, !.made = r.events,
                                              !.raised = @ \/ failing # {}]
    /\ UNCHANGED <<lock, threads, cli, stops, pending, components, phase, dependencies, sorted, data, main, events,
                   cycles>>

\* Workflow.cleanup (workflow.py 186-205), called by the caller of execute()
\* before execute() or after it returned.  The events of `events`, the ones
\* execute() created, are not reached by it.
Cleanup ==
    /\ phase = "constructed"
    /\ main.pc \in {"idle", "returned"}
    /\ cleanup.pc = "idle"
    /\ cleanup.calls < MaxCleanups
    /\ \E failing \in SUBSET CleanupSteps :
          LET r == CleanupLoop(1, failing, << >>)
          IN  cleanup' = IF r.stuck
                         THEN [cleanup EXCEPT !.pc = "deadlock", !.made = r.events]
                         ELSE [cleanup EXCEPT !.calls = @ + 1, !.made = r.events]
    /\ UNCHANGED <<lock, threads, cli, stops, pending, components, phase, dependencies, sorted, data, main, events,
                   cycles>>

\* ------------------------------------------------------------------ the executed workflows
\* The step configurations the executed workflows are made of.
\*   actions:  "v" -> x,  "{{x}}" -> y,  "{{y}}" -> nothing,  "{{y}}" -> x
\*   triggers: persistent (no timeout) publishing x; one-shot (timeout 1)
\*             publishing x; persistent (timeout -1) with a placeholder in
\*             its own parameter
ActionSource   == StepConfig("action", FALSE, NoTimeout, <<"v">>, {<<"out", AliasX>>})
ActionXtoY     == StepConfig("action", FALSE, NoTimeout, Tok(AliasX), {<<"out", AliasY>>})
ActionSink     == StepConfig("action", FALSE, NoTimeout, Tok(AliasY), {})
ActionYtoX     == StepConfig("action", FALSE, NoTimeout, Tok(AliasY), {<<"out", AliasX>>})
TriggerForever == StepConfig("event", TRUE, NoTimeout, <<"v">>, {<<"out", AliasX>>})
TriggerOnce    == StepConfig("event", TRUE, <<1>>, <<"v">>, {<<"out", AliasX>>})
TriggerToken   == StepConfig("event", TRUE, <<-1>>, Tok(AliasX), {})

EngineSteps ==
    { ActionSource, ActionXtoY, ActionSink, ActionYtoX,
      TriggerForever, TriggerOnce, TriggerToken }

\* Three-step workflows that are run whatever MaxEngineSteps is: a trigger
\* with a chain of two actions (in and against dict order), a chain of three
\* actions, a one-shot trigger before a chain, a cycle beside a persistent
\* trigger, a persistent and a one-shot trigger, two persistent triggers.
ScenarioWorkflows ==
    { <<TriggerForever, ActionXtoY, ActionSink>>,
      <<ActionSink, ActionXtoY, TriggerForever>>,
      <<ActionSource, ActionXtoY, ActionSink>>,
      <<ActionSink, ActionXtoY, ActionSource>>,
      <<TriggerOnce, ActionXtoY, ActionSink>>,
      <<ActionXtoY, ActionYtoX, TriggerForever>>,
      <<TriggerForever, TriggerOnce, ActionXtoY>>,
      <<TriggerForever, TriggerForever, ActionXtoY>> }

EngineWorkflows == SeqsUpTo(EngineSteps, MaxEngineSteps) \cup ScenarioWorkflows

Init ==
    /\ components \in EngineWorkflows
    /\ phase = "new"
    /\ dependencies = [c \in {} |-> {}]
    /\ sorted = NotCalled
    /\ data = EmptyData
    /\ main = MainIdle
    /\ events = << >>
    /\ cycles = << >>
    /\ cleanup = NoCleanup
    /\ pending = Messages(MaxMessages)
    /\ lock = 0
    /\ threads = << >>
    /\ cli = CliIdle
    /\ stops = << >>

Next ==
    \/ Construct
    \/ Execute
    \/ ClassifyStep
    \/ ClassifyOneShot
    \/ ChooseMode
    \/ BatchStep
    \/ BatchReturn
    \/ ReactiveCreate
    \/ SetWorkflowCallback
    \/ EventExecuteStart
    \/ EventExecuteReturn
    \/ ReactiveReturn
    \/ \E e \in 1..Len(events) : ListenerConnect(e)
    \/ \E e \in 1..Len(events) : ListenerConnectFails(e)
    \/ \E e \in 1..Len(events) : HandleMessage(e)
    \/ \E k \in 1..Len(cycles) : CycleStep(k)

\* Construction and execution of every workflow of EngineWorkflows.
Spec == Init /\ [][Next]_vars

\* ------------------------------------------------------------------ runs with cleanup()
\* The workflows whose whole life is followed, cleanup() included: a
\* persistent trigger with an action, a persistent trigger before one that
\* blocks, a one-shot trigger with an action, a trigger with a token in its
\* parameter, a single action.
LifecycleWorkflows ==
    { <<TriggerForever, ActionXtoY>>,
      <<TriggerForever, TriggerToken>>,
      <<TriggerOnce, ActionXtoY>>,
      <<TriggerToken>>,
      <<ActionSource>> }

\* One message more than in the runs of Spec, so that a cycle can follow
\* another one.
LifecycleInit ==
    /\ components \in LifecycleWorkflows
    /\ phase = "new"
    /\ dependencies = [c \in {} |-> {}]
    /\ sorted = NotCalled
    /\ data = EmptyData
    /\ main = MainIdle
    /\ events = << >>
    /\ cycles = << >>
    /\ cleanup = NoCleanup
    /\ pending = Messages(MaxMessages + 1)
    /\ lock = 0
    /\ threads = << >>
    /\ cli = CliIdle
    /\ stops = << >>

LifecycleNext == Next \/ Cleanup

\* Construction, execution and cleanup of every workflow of LifecycleWorkflows.
SpecLifecycle == LifecycleInit /\ [][LifecycleNext]_vars

\* ------------------------------------------------------------------ stop_listening on a started listener
\* Largest number of calls of stop_listening on the events of a run.
MaxStops == 1

\* The callback cycles of event e that are still executing.
InFlight(e) ==
    {k \in 1..Len(cycles) : cycles[k].event = e /\ cycles[k].pc \in {"running", "blocked"}}

\* ReceiveMessageEvent.stop_listening (slack.py 401-410) called by a holder of
\* the event object e: lines 404-405 set the flags; line 407 joins the
\* listener thread if there is one and it is alive, otherwise the call
\* returns.  `inflight` records the callbacks executing at the call.
StopListeningCall(e) ==
    /\ Len(stops) < MaxStops
    /\ events' = [events EXCEPT ![e] = StopListening(@)]
    /\ stops' = Append(stops,
          [event |-> e,
           pc |-> IF events[e].thread \in {"started", "connected"} THEN "joining" ELSE "returned",
           timed_out |-> FALSE,
           inflight |-> InFlight(e)])
    /\ UNCHANGED <<lock, threads, cli, cleanup, pending, components, phase, dependencies, sorted,
                   data, main, cycles>>

\* listener_thread.join(timeout=5), line 408: it returns when the listener
\* thread has ended, or after 5 s with the thread still alive; then line 410.
StopListeningJoinReturn(k) ==
    /\ stops[k].pc = "joining"
    /\ stops' = [stops EXCEPT ![k].pc = "returned",
                              ![k].timed_out = (events[stops[k].event].thread # "exited")]
    /\ UNCHANGED <<lock, threads, cli, cleanup, pending, components, phase, dependencies, sorted,
                   data, main, events, cycles>>

\* The listener thread ending while it is listening and no stop is requested.
ListenerExit_Unrequested(e) ==
    /\ events[e].thread = "connected"
    /\ events' = [events EXCEPT ![e].thread = "exited"]
    /\ UNCHANGED <<lock, threads, cli, stops, cleanup, pending, components, phase, dependencies,
                   sorted, data, main, cycles>>

\* _start_listening, lines 307-318: the loop ends when is_listening is False
\* or stop_event is set; the socket is disconnected and the thread ends.
ListenerExit(e) ==
    /\ events[e].thread = "connected"
    /\ ~events[e].is_listening \/ events[e].stop_event
    /\ events' = [events EXCEPT ![e].thread = "exited"]
    /\ UNCHANGED <<lock, threads, cli, stops, cleanup, pending, components, phase, dependencies,
                   sorted, data, main, cycles>>

\* The reactive workflows whose listeners are stopped: a persistent trigger
\* alone, with one action, and with a chain of two actions.
ListenerWorkflows ==
    { <<TriggerForever>>,
      <<TriggerForever, ActionXtoY>>,
      <<TriggerForever, ActionXtoY, ActionSink>> }

ListenerInit ==
    /\ components \in ListenerWorkflows
    /\ phase = "new"
    /\ dependencies = [c \in {} |-> {}]
    /\ sorted = NotCalled
    /\ data = EmptyData
    /\ main = MainIdle
    /\ events = << >>
    /\ cycles = << >>
    /\ cleanup = NoCleanup
    /\ pending = Messages(MaxMessages)
    /\ lock = 0
    /\ threads = << >>
    /\ cli = CliIdle
    /\ stops = << >>

ListenerNext ==
    \/ Construct
    \/ Execute
    \/ ClassifyStep
    \/ ChooseMode
    \/ ReactiveCreate
    \/ SetWorkflowCallback
    \/ EventExecuteStart
    \/ EventExecuteReturn
    \/ ReactiveReturn
    \/ \E e \in 1..Len(events) : ListenerConnect(e)
    \/ \E e \in 1..Len(events) : ListenerConnectFails(e)
    \/ \E e \in 1..Len(events) : HandleMessage(e)
    \/ \E k \in 1..Len(cycles) : CycleStep(k)
    \/ \E e \in 1..Len(events) : StopListeningCall(e)
    \/ \E k \in 1..Len(stops) : StopListeningJoinReturn(k)
    \/ \E e \in 1..Len(events) : ListenerExit(e)

\* Reactive runs in which a holder of the event objects calls stop_listening
\* on them at any moment.
SpecListener == ListenerInit /\ [][ListenerNext]_vars

\* ------------------------------------------------------------------ the CLI command
\* Largest number of KeyboardInterrupts delivered to one run of the command.
MaxInterrupts == 2

\* _is_reactive_workflow (execute_workflow.py 104-116): some step is a trigger
\* whose timeout is absent or -1.
IsReactiveWorkflow(comps) ==
    \E c \in StepIds(comps) : comps[c].is_trigger /\ TimeoutOf(comps[c]) = -1

\* execute_workflow.py 81-89 and 127-141, 165-197, once Workflow(...) raised
\* or execute() returned: a construction error is caught at line 98 and the
\* command returns; a reactive workflow that did not start returns at line
\* 133; one that started goes on to the wait loop; a traditional workflow
\* prints its result and returns.
CliAfterExecute ==
    /\ cli.pc = "idle"
    /\ \/ /\ phase = NoComponentsError
          /\ cli' = [cli EXCEPT !.pc = "returned"]
       \/ /\ phase = "constructed"
          /\ main.pc = "returned"
          /\ cli' = [cli EXCEPT !.pc = IF IsReactiveWorkflow(components) /\ main.ret.success
                                       THEN "started" ELSE "returned"]
    /\ UNCHANGED <<lock, threads, stops, cleanup, pending, components, phase, dependencies,
                   sorted, data, main, events, cycles>>

\* Lines 143-149: the try block is entered and the command sleeps in the loop.
CliEnterWait ==
    /\ cli.pc = "started"
    /\ cli' = [cli EXCEPT !.pc = "waiting"]
    /\ UNCHANGED <<lock, threads, stops, cleanup, pending, components, phase, dependencies,
                   sorted, data, main, events, cycles>>

\* The handler of line 156 returning without a call of cleanup().
CliInterrupt_SkipsCleanup ==
    /\ cli.interrupts < MaxInterrupts
    /\ cli.pc \in {"started", "waiting", "handler", "in_cleanup"}
    /\ cli' = IF cli.pc = "started"
              THEN [cli EXCEPT !.pc = "handler", !.handler = "outer", !.interrupts = @ + 1]
              ELSE IF cli.pc = "waiting"
              THEN [cli EXCEPT !.pc = "returned", !.handler = "inner", !.interrupts = @ + 1]
              ELSE IF cli.handler = "inner"
              THEN [cli EXCEPT !.pc = "handler", !.handler = "outer", !.interrupts = @ + 1,
                               !.seen = cleanup.calls]
              ELSE [cli EXCEPT !.pc = "returned", !.interrupts = @ + 1, !.seen = cleanup.calls]
    /\ UNCHANGED <<lock, threads, stops, cleanup, pending, components, phase, dependencies,
                   sorted, data, main, events, cycles>>

\* A KeyboardInterrupt reaches the main thread after execute() returned.
\*   before the loop (lines 135-141): caught at line 91;
\*   in the loop (lines 143-154): caught at line 156;
\*   in the handler of line 156 or inside the cleanup() it calls: it leaves
\*       _execute_reactive_workflow and is caught at line 91;
\*   in the handler of line 91: the bare except of line 96 swallows it.
CliInterrupt ==
    /\ cli.interrupts < MaxInterrupts
    /\ cli.pc \in {"started", "waiting", "handler", "in_cleanup"}
    /\ cli' = IF cli.pc = "started"
              THEN [cli EXCEPT !.pc = "handler", !.handler = "outer", !.interrupts = @ + 1]
              ELSE IF cli.pc = "waiting"
              THEN [cli EXCEPT !.pc = "handler", !.handler = "inner", !.interrupts = @ + 1]
              ELSE IF cli.handler = "inner"
              THEN [cli EXCEPT !.pc = "handler", !.handler = "outer", !.interrupts = @ + 1,
                               !.seen = cleanup.calls]
              ELSE [cli EXCEPT !.pc = "returned", !.interrupts = @ + 1, !.seen = cleanup.calls]
    /\ UNCHANGED <<lock, threads, stops, cleanup, pending, components, phase, dependencies,
                   sorted, data, main, events, cycles>>

\* Lines 158 and 94: the handler calls workflow.cleanup().
CliCallCleanup ==
    /\ cli.pc = "handler"
    /\ cli' = [cli EXCEPT !.pc = "in_cleanup", !.started = @ + 1]
    /\ UNCHANGED <<lock, threads, stops, cleanup, pending, components, phase, dependencies,
                   sorted, data, main, events, cycles>>

\* The call of cleanup() made by the handler runs.
CliRunCleanup ==
    /\ cli.pc = "in_cleanup"
    /\ cleanup.calls = cli.seen
    /\ Cleanup

\* cleanup() returned: lines 159 and 95, and the command returns.
CliCleanupReturn ==
    /\ cli.pc = "in_cleanup"
    /\ cleanup.calls > cli.seen
    /\ cli' = [cli EXCEPT !.pc = "returned", !.seen = cleanup.calls]
    /\ UNCHANGED <<lock, threads, stops, cleanup, pending, components, phase, dependencies,
                   sorted, data, main, events, cycles>>

\* The workflows the command is run on: a persistent trigger with an action,
\* a one-shot trigger with an action, a single action, a trigger that blocks
\* the start, and the empty definition.
CliWorkflows ==
    { <<TriggerForever, ActionXtoY>>,
      <<TriggerOnce, ActionXtoY>>,
      <<ActionSource>>,
      <<TriggerToken>>,
      << >> }

CliInit ==
    /\ components \in CliWorkflows
    /\ phase = "new"
    /\ dependencies = [c \in {} |-> {}]
    /\ sorted = NotCalled
    /\ data = EmptyData
    /\ main = MainIdle
    /\ events = << >>
    /\ cycles = << >>
    /\ cleanup = NoCleanup
    /\ pending = Messages(MaxMessages)
    /\ lock = 0
    /\ threads = << >>
    /\ cli = CliIdle
    /\ stops = << >>

CliNext ==
    \/ Next
    \/ CliAfterExecute
    \/ CliEnterWait
    \/ CliInterrupt
    \/ CliCallCleanup
    \/ CliRunCleanup
    \/ CliCleanupReturn

\* The command execute_workflow run on every workflow of CliWorkflows.
SpecCli == CliInit /\ [][CliNext]_vars

\* ------------------------------------------------------------------ threads on the shared context
\* Number of threads that call the WorkflowContext directly.
MaxThreads == 2

\* One call in the program of a thread.
\*   set, get, update, get_all, clear, resolve_placeholders, resolve_config:
\*       the methods of WorkflowContext (a dict argument is the sequence of
\*       its <<key, value>> items, in dict order, with tagged values);
\*   resolve_again: resolve_placeholders on what the previous call returned;
\*   copy_put, copy_del: `m[key] = value` and `m.pop(key, None)` on the
\*       mapping m that the thread's last get_all returned;
\*   data_get, set_out: the engine's read of _data and its context.set of a
\*       step's output (workflow.py 132 and 177).
Call(op, key, value) == [op |-> op, key |-> key, value |-> value, items |-> << >>]

\* A call whose argument is a dict: update and resolve_config.
CallDict(op, items) == [op |-> op, key |-> << >>, value |-> << >>, items |-> items]

\* The mapping a thread holds from get_all: `alias` tells that it is the
\* context's own _data object, `obj` is its content when it is an own object.
NoCopy == [made |-> FALSE, alias |-> FALSE, obj |-> EmptyData]

\* A thread before its first call.
\*   pc     index in prog of the call in progress
\*   at     "out": not inside the lock; "in": inside `with self._lock` of the
\*          call; "call_get": inside re.sub's callback, calling self.get;
\*          "in_get": inside `with self._lock` of that get
\*   i      update: the item being written; re.sub: the match being replaced
\*   acc    re.sub: the replacements of the matches handled so far
\*   leaf   resolve_config: the string value being resolved
\*   res    resolve_config: the resolved string values so far
\*   rets   what the finished calls returned
NewThread(prog) ==
    [prog |-> prog, pc |-> 1, at |-> "out", i |-> 1, acc |-> << >>,
     leaf |-> 1, res |-> << >>, rets |-> << >>, copy |-> NoCopy]

Current(t) == threads[t].prog[threads[t].pc]

Running(t) == threads[t].pc <= Len(threads[t].prog)

\* The call in progress returns v.
Return(th, v) ==
    [th EXCEPT !.pc = @ + 1, !.at = "out", !.i = 1, !.acc = << >>,
               !.leaf = 1, !.res = << >>, !.rets = Append(@, v)]

\* dict.pop(k, None) on a mapping.
DictPop(d, k) == [a \in (DOMAIN d) \ {k} |-> d[a]]

\* The content of the mapping thread t holds from get_all.
CopyView(t) == IF threads[t].copy.alias THEN data ELSE threads[t].copy.obj

\* ------------------------------------------------------------------ configuration values
\* The values of a configuration dict, tagged with their Python type: a str,
\* an int (its digits), a dict (the sequence of its <<key, value>> items) or
\* a list.
StrLeaf(text)   == [t |-> "str", v |-> text]
IntLeaf(digits) == [t |-> "int", v |-> digits]
DictOf(entries) == [t |-> "dict", v |-> entries]
ListOf(items)   == [t |-> "list", v |-> items]

\* The path of item i of a list.
ItemKey(i) == <<"#", ToString(i)>>

\* The str items of a list, the only ones lines 62-65 resolve.
RECURSIVE ListLeaves(_, _, _)
ListLeaves(items, i, path) ==
    IF i > Len(items) THEN << >>
    ELSE (IF items[i].t = "str"
          THEN << [path |-> Append(path, ItemKey(i)), text |-> items[i].v] >>
          ELSE << >>)
         \o ListLeaves(items, i + 1, path)

\* The calls of resolve_placeholders that resolve_config makes for the items
\* of a dict from item j on, in order: for a str value, for the str values
\* of a nested dict (recursively), for the str items of a list.
RECURSIVE ConfigLeaves(_, _, _)
ConfigLeaves(entries, j, path) ==
    IF j > Len(entries) THEN << >>
    ELSE LET value == entries[j][2]
             here  == Append(path, entries[j][1])
         IN  (CASE value.t = "str"  -> << [path |-> here, text |-> value.v] >>
                [] value.t = "dict" -> ConfigLeaves(value.v, 1, here)
                [] value.t = "list" -> ListLeaves(value.v, 1, here)
                [] OTHER            -> << >>)
             \o ConfigLeaves(entries, j + 1, path)

\* What the call for the value at `path` returned.
Lookup(leaves, res, path) ==
    res[CHOOSE n \in 1..Len(leaves) : leaves[n].path = path]

\* The dict resolve_config builds (lines 55-68) from the results `res` of its
\* calls `leaves`: a new dict with the same keys; other values are passed on.
RECURSIVE ResolvedConfig(_, _, _, _)
ResolvedConfig(entries, path, leaves, res) ==
    [j \in 1..Len(entries) |->
        LET value == entries[j][2]
            here  == Append(path, entries[j][1])
        IN  << entries[j][1],
               CASE value.t = "str"  -> StrLeaf(Lookup(leaves, res, here))
                 [] value.t = "dict" -> DictOf(ResolvedConfig(value.v, here, leaves, res))
                 [] value.t = "list" ->
                        ListOf([i \in 1..Len(value.v) |->
                                   IF value.v[i].t = "str"
                                   THEN StrLeaf(Lookup(leaves, res, Append(here, ItemKey(i))))
                                   ELSE value.v[i]])
                 [] OTHER            -> value >>]

\* re.sub(pattern, replace_placeholder, text) once the callback returned
\* subs[m] for the m-th match: the text between the matches is kept.
RECURSIVE ReSubFrom(_, _, _, _)
ReSubFrom(text, i, subs, m) ==
    IF i > Len(text) THEN << >>
    ELSE LET e == MatchEnd(text, i)
         IN  IF e > 0
             THEN subs[m] \o ReSubFrom(text, e + 1, subs, m + 1)
             ELSE <<text[i]>> \o ReSubFrom(text, i + 1, subs, m)

ReSub(text, subs) == ReSubFrom(text, 1, subs, 1)

\* ------------------------------------------------------------------ the engine's own resolution of a config
\* _execute_component, lines 120-137, for a config dict given as its items:
\* a str value holding "{{" and "}}" is resolved by the loop of lines 130-134;
\* every other value, nested dicts and lists included, is passed on as it is.
ResolveConfigManual(entries, d) ==
    [j \in 1..Len(entries) |->
        << entries[j][1],
           IF entries[j][2].t = "str"
           THEN StrLeaf(ResolveParam(entries[j][2].v, d))
           ELSE entries[j][2] >>]

\* ------------------------------------------------------------------ the context's methods, step by step
LockOps == {"set", "set_out", "get", "update", "get_all", "clear", "resolve_placeholders",
            "resolve_again"}

\* The text thread t is resolving.
ScanText(t) ==
    IF Current(t).op = "resolve_placeholders" THEN Current(t).value
    ELSE IF Current(t).op = "resolve_again" THEN threads[t].rets[threads[t].pc - 1]
    ELSE ConfigLeaves(Current(t).items, 1, << >>)[threads[t].leaf].text

\* Thread t is at a `with self._lock:` (context.py 17, 22, 27, 32, 37, 50).
WantsLock(t) ==
    /\ Running(t)
    /\ \/ threads[t].at = "call_get"
       \/ /\ threads[t].at = "out"
          /\ \/ Current(t).op \in LockOps
             \/ /\ Current(t).op = "resolve_config"
                /\ threads[t].leaf <= Len(ConfigLeaves(Current(t).items, 1, << >>))

\* `with self._lock:` entered whoever holds the lock.
Acquire_NoExclusion(t) ==
    /\ WantsLock(t)
    /\ lock' = t
    /\ threads' = [threads EXCEPT ![t].at = IF @ = "call_get" THEN "in_get" ELSE "in"]
    /\ UNCHANGED <<cli, stops, cleanup, pending, components, phase, dependencies, sorted, data,
                   main, events, cycles>>

\* threading.Lock.acquire: the thread enters when the lock is free.  The
\* lock is not re-entrant: a thread that holds it waits like any other.
Acquire(t) ==
    /\ WantsLock(t)
    /\ lock = 0
    /\ lock' = t
    /\ threads' = [threads EXCEPT ![t].at = IF @ = "call_get" THEN "in_get" ELSE "in"]
    /\ UNCHANGED <<cli, stops, cleanup, pending, components, phase, dependencies, sorted, data,
                   main, events, cycles>>

\* WorkflowContext.set, line 18, and the release of the lock.
SetBody(t) ==
    /\ Running(t) /\ threads[t].at = "in" /\ Current(t).op = "set"
    /\ data' = ContextSet(data, Current(t).key, Current(t).value)
    /\ lock' = 0
    /\ threads' = [threads EXCEPT ![t] = Return(@, NoneVal)]
    /\ UNCHANGED <<cli, stops, cleanup, pending, components, phase, dependencies, sorted,
                   main, events, cycles>>

\* WorkflowContext.get, line 23, and the release of the lock.  Called from
\* replace_placeholder (lines 46-48) its value, or the matched text for None,
\* is the replacement of the match.
GetBody(t) ==
    /\ Running(t)
    /\ \/ /\ threads[t].at = "in" /\ Current(t).op = "get"
          /\ threads' = [threads EXCEPT ![t] = Return(@, ContextGet(data, Current(t).key))]
       \/ /\ threads[t].at = "in_get"
          /\ LET key   == FindAll(ScanText(t))[threads[t].i]
                 value == ContextGet(data, key)
             IN  threads' = [threads EXCEPT
                    ![t].acc = Append(@, IF value # NoneVal THEN Str(value) ELSE Tok(key)),
                    ![t].i = @ + 1,
                    ![t].at = "in"]
    /\ lock' = 0
    /\ UNCHANGED <<cli, stops, cleanup, pending, components, phase, dependencies, sorted, data,
                   main, events, cycles>>

\* WorkflowContext.update, line 28: dict.update writes the items one after
\* the other; the lock is released after the last one.
UpdateBody(t) ==
    /\ Running(t) /\ threads[t].at = "in" /\ Current(t).op = "update"
    /\ LET items == Current(t).items
           i     == threads[t].i
       IN  /\ data' = IF i <= Len(items) THEN ContextSet(data, items[i][1], items[i][2].v)
                      ELSE data
           /\ IF i >= Len(items)
              THEN /\ lock' = 0
                   /\ threads' = [threads EXCEPT ![t] = Return(@, NoneVal)]
              ELSE /\ UNCHANGED lock
                   /\ threads' = [threads EXCEPT ![t].i = @ + 1]
    /\ UNCHANGED <<cli, stops, cleanup, pending, components, phase, dependencies, sorted,
                   main, events, cycles>>

\* get_all returning the context's own dict.
GetAllBody_Alias(t) ==
    /\ Running(t) /\ threads[t].at = "in" /\ Current(t).op = "get_all"
    /\ lock' = 0
    /\ threads' = [threads EXCEPT
          ![t] = [Return(@, data) EXCEPT !.copy = [made |-> TRUE, alias |-> TRUE,
                                                   obj |-> EmptyData]]]
    /\ UNCHANGED <<cli, stops, cleanup, pending, components, phase, dependencies, sorted, data,
                   main, events, cycles>>

\* WorkflowContext.get_all, line 33: self._data.copy() is a new dict with the
\* same items.
GetAllBody(t) ==
    /\ Running(t) /\ threads[t].at = "in" /\ Current(t).op = "get_all"
    /\ lock' = 0
    /\ threads' = [threads EXCEPT
          ![t] = [Return(@, ContextGetAll(data)) EXCEPT
                     !.copy = [made |-> TRUE, alias |-> FALSE, obj |-> ContextGetAll(data)]]]
    /\ UNCHANGED <<cli, stops, cleanup, pending, components, phase, dependencies, sorted, data,
                   main, events, cycles>>

\* WorkflowContext.clear, line 38.
ClearBody(t) ==
    /\ Running(t) /\ threads[t].at = "in" /\ Current(t).op = "clear"
    /\ data' = EmptyData
    /\ lock' = 0
    /\ threads' = [threads EXCEPT ![t] = Return(@, NoneVal)]
    /\ UNCHANGED <<cli, stops, cleanup, pending, components, phase, dependencies, sorted,
                   main, events, cycles>>

\* The caller of get_all changes the mapping it got (test_context.py 32):
\* a write reaches the context's dict only if the mapping is that dict.
CopyMutate(t) ==
    /\ Running(t) /\ threads[t].at = "out" /\ Current(t).op \in {"copy_put", "copy_del"}
    /\ threads[t].copy.made
    /\ LET new == IF Current(t).op = "copy_put"
                  THEN ContextSet(CopyView(t), Current(t).key, Current(t).value)
                  ELSE DictPop(CopyView(t), Current(t).key)
       IN  IF threads[t].copy.alias
           THEN /\ data' = new
                /\ threads' = [threads EXCEPT ![t] = Return(@, NoneVal)]
           ELSE /\ data' = data
                /\ threads' = [threads EXCEPT
                      ![t] = [Return(@, NoneVal) EXCEPT !.copy.obj = new]]
    /\ UNCHANGED <<lock, cli, stops, cleanup, pending, components, phase, dependencies, sorted,
                   main, events, cycles>>

\* resolve_placeholders inside `with self._lock` (lines 50-51): re.sub goes
\* to the next match and calls replace_placeholder, which calls self.get
\* while the lock is held; after the last match the text is returned and the
\* lock released.  Called by resolve_config the result is the value of the
\* key (lines 58, 63).
ResolveScan(t) ==
    /\ Running(t) /\ threads[t].at = "in"
    /\ Current(t).op \in {"resolve_placeholders", "resolve_again", "resolve_config"}
    /\ IF threads[t].i <= Len(FindAll(ScanText(t)))
       THEN /\ threads' = [threads EXCEPT ![t].at = "call_get"]
            /\ UNCHANGED lock
       ELSE /\ lock' = 0
            /\ LET out == ReSub(ScanText(t), threads[t].acc)
               IN  threads' = [threads EXCEPT
                      ![t] = IF Current(t).op = "resolve_config"
                             THEN [@ EXCEPT !.res = Append(@, out), !.leaf = @ + 1,
                                            !.at = "out", !.i = 1, !.acc = << >>]
                             ELSE Return(@, out)]
    /\ UNCHANGED <<cli, stops, cleanup, pending, components, phase, dependencies, sorted, data,
                   main, events, cycles>>

\* resolve_config, line 68: every value is handled, the new dict is returned.
ResolveConfigReturn(t) ==
    /\ Running(t) /\ threads[t].at = "out" /\ Current(t).op = "resolve_config"
    /\ LET leaves == ConfigLeaves(Current(t).items, 1, << >>)
       IN  /\ threads[t].leaf > Len(leaves)
           /\ threads' = [threads EXCEPT
                 ![t] = Return(@, ResolvedConfig(Current(t).items, << >>, leaves, threads[t].res))]
    /\ UNCHANGED <<lock, cli, stops, cleanup, pending, components, phase, dependencies, sorted,
                   data, main, events, cycles>>

\* ------------------------------------------------------------------ threads that set, get, update, snapshot and clear
\* The key and the value of thread t, and the two keys of an update.
KeyOf(t) == <<"k", ToString(t)>>
ValOf(t) == <<"v", ToString(t)>>
KeyU == <<"u">>
KeyW == <<"w">>

\* The programs of test_context.py 40-65 and 26-33: a thread sets and gets its
\* own key; a thread updates two keys at once; a thread takes a snapshot,
\* writes and removes keys in it and takes another one; a thread clears.
SetGet(t) == << Call("set", KeyOf(t), ValOf(t)), Call("get", KeyOf(t), << >>) >>
Updater   == << CallDict("update", << <<KeyU, StrLeaf(<<"a">>)>>, <<KeyW, StrLeaf(<<"b">>)>> >>) >>
Snapshot  == << Call("get_all", << >>, << >>), Call("copy_put", KeyU, <<"z">>),
                Call("copy_del", KeyW, << >>), Call("get_all", << >>, << >>) >>
Clearer   == << Call("clear", << >>, << >>) >>

ContextPrograms(t) == { SetGet(t), Updater, Snapshot, Clearer }

ContextInit ==
    /\ components = << >>
    /\ phase = "new"
    /\ dependencies = [c \in {} |-> {}]
    /\ sorted = NotCalled
    /\ data = EmptyData
    /\ main = MainIdle
    /\ events = << >>
    /\ cycles = << >>
    /\ cleanup = NoCleanup
    /\ pending = << >>
    /\ lock = 0
    /\ threads \in {[t \in 1..MaxThreads |-> NewThread(p[t])] :
                       p \in [1..MaxThreads -> UNION {ContextPrograms(t) : t \in 1..MaxThreads}]}
    /\ \A t \in 1..MaxThreads : threads[t].prog \in ContextPrograms(t)
    /\ cli = CliIdle
    /\ stops = << >>

ContextNext ==
    \/ \E t \in DOMAIN threads : Acquire(t)
    \/ \E t \in DOMAIN threads : SetBody(t)
    \/ \E t \in DOMAIN threads : GetBody(t)
    \/ \E t \in DOMAIN threads : UpdateBody(t)
    \/ \E t \in DOMAIN threads : GetAllBody(t)
    \/ \E t \in DOMAIN threads : ClearBody(t)
    \/ \E t \in DOMAIN threads : CopyMutate(t)

\* Every interleaving of MaxThreads threads running these programs.
SpecContext == ContextInit /\ [][ContextNext]_vars

\* ------------------------------------------------------------------ threads that resolve
\* The texts handed to resolve_placeholders: "v", "{{x}}", "a{{x}}b", "{{y}}"
\* and the malformed "{x}}".
ResolveTexts ==
    { <<"v">>, Tok(AliasX), <<"a">> \o Tok(AliasX) \o <<"b">>, Tok(AliasY),
      <<"{", "x", "}", "}">> }

\* The dicts handed to resolve_config:
\*   {"a": "v", "n": 1}                       {"a": "{{x}}", "n": 1}
\*   {"d": {"a": "v"}, "l": ["w", 1]}        {"d": {"a": "{{x}}"}}
\*   {"l": [["{{x}}"]]}                       {"l": [{"a": "{{x}}"}]}
CfgPlain      == << << <<"a">>, StrLeaf(<<"v">>) >>, << <<"n">>, IntLeaf(<<"1">>) >> >>
CfgFlat       == << << <<"a">>, StrLeaf(Tok(AliasX)) >>, << <<"n">>, IntLeaf(<<"1">>) >> >>
CfgNested     == << << <<"d">>, DictOf(<< << <<"a">>, StrLeaf(<<"v">>) >> >>) >>,
                    << <<"l">>, ListOf(<< StrLeaf(<<"w">>), IntLeaf(<<"1">>) >>) >> >>
CfgNestedTok  == << << <<"d">>, DictOf(<< << <<"a">>, StrLeaf(Tok(AliasX)) >> >>) >> >>
CfgListInList == << << <<"l">>, ListOf(<< ListOf(<< StrLeaf(Tok(AliasX)) >>) >>) >> >>
CfgDictInList == << << <<"l">>,
                       ListOf(<< DictOf(<< << <<"a">>, StrLeaf(Tok(AliasX)) >> >>) >>) >> >>

ResolveConfigs ==
    { CfgPlain, CfgFlat, CfgNested, CfgNestedTok, CfgListInList, CfgDictInList }

\* What the resolving thread does first: nothing, or it sets x.
Prefixes == { << >>, << Call("set", AliasX, <<"1">>) >> }

\* The resolving thread resolves a text and then the result (test_context.py
\* 67-93), or a configuration (95-139).
ResolvePrograms ==
    { pre \o << Call("resolve_placeholders", << >>, text), Call("resolve_again", << >>, << >>) >>
        : pre \in Prefixes, text \in ResolveTexts }
    \cup { pre \o << CallDict("resolve_config", cfg) >> : pre \in Prefixes, cfg \in ResolveConfigs }

\* The threads beside it: idle, setting x, or getting x.
OtherPrograms ==
    { << >>, << Call("set", AliasX, <<"w">>) >>, << Call("get", AliasX, << >>) >> }

ResolveInit ==
    /\ components = << >>
    /\ phase = "new"
    /\ dependencies = [c \in {} |-> {}]
    /\ sorted = NotCalled
    /\ data = EmptyData
    /\ main = MainIdle
    /\ events = << >>
    /\ cycles = << >>
    /\ cleanup = NoCleanup
    /\ pending = << >>
    /\ lock = 0
    /\ threads \in {[t \in 1..MaxThreads |-> NewThread(p[t])] :
                       p \in [1..MaxThreads -> ResolvePrograms \cup OtherPrograms]}
    /\ threads[1].prog \in ResolvePrograms
    /\ \A t \in 2..MaxThreads : threads[t].prog \in OtherPrograms
    /\ cli = CliIdle
    /\ stops = << >>

ResolveNext ==
    \/ \E t \in DOMAIN threads : Acquire(t)
    \/ \E t \in DOMAIN threads : SetBody(t)
    \/ \E t \in DOMAIN threads : GetBody(t)
    \/ \E t \in DOMAIN threads : ResolveScan(t)
    \/ \E t \in DOMAIN threads : ResolveConfigReturn(t)

\* Every interleaving of a resolving thread with the other threads.
SpecResolve == ResolveInit /\ [][ResolveNext]_vars

\* The same, with threads that go on whenever they can.
SpecResolveFair == SpecResolve /\ WF_vars(ResolveNext)

\* ------------------------------------------------------------------ callback threads
\* The loop of workflow.py 130-134 once the reads of line 132 returned
\* reads[i] for placeholders[i]: each placeholder whose read was not None is
\* replaced in the value resolved so far.
RECURSIVE ResolveReads(_, _, _, _)
ResolveReads(resolved_value, placeholders, reads, i) ==
    IF i > Len(placeholders) THEN resolved_value
    ELSE ResolveReads(IF reads[i] # NoneVal
                      THEN Replace(resolved_value, Tok(placeholders[i]), Str(reads[i]))
                      ELSE resolved_value,
                      placeholders, reads, i + 1)

\* The placeholders _execute_component looks up for a parameter (lines 125-128).
Placeholders(value) ==
    IF Contains(value, <<"{", "{">>) /\ Contains(value, <<"}", "}">>)
    THEN FindAll(value) ELSE << >>

\* The accesses to the context that one loop over an output mapping makes
\* (workflow.py 282-284 and 174-177) for a result with the keys of `fields`:
\* one call `op` per entry whose key is in the result.  The mappings of the
\* executed workflows have at most one entry.
StoreCalls(om, fields, op, arg) ==
    IF \E p \in om : \E f \in fields : f[1] = p[1]
    THEN LET p == CHOOSE q \in om : \E f \in fields : f[1] = q[1]
             f == CHOOSE g \in fields : g[1] = p[1]
         IN  << Call(op, p[2], IF op = "set" THEN f[2] ELSE arg) >>
    ELSE << >>

\* The accesses of _execute_component for an action step that succeeds, in
\* order: `data_get`, the read self.context._data.get(placeholder) of line
\* 132, once per placeholder; then `set_out`, the context.set of line 177 for
\* the output, which the action computes from the resolved parameter.
DispatchCalls(cfg) ==
    [i \in 1..Len(Placeholders(cfg.input)) |->
        Call("data_get", Placeholders(cfg.input)[i], << >>)]
    \o StoreCalls(cfg.output_mapping, {<<"out", << >> >>}, "set_out", cfg.input)

RECURSIVE ActionCalls(_, _, _)
ActionCalls(comps, actions, i) ==
    IF i > Len(actions) THEN << >>
    ELSE DispatchCalls(comps[actions[i]]) \o ActionCalls(comps, actions, i + 1)

\* The accesses of one run of workflow_callback (workflow.py 277-302) for
\* the trigger c and the message msg: the payload is stored under the
\* trigger's aliases, then every action component is executed.
CallbackCalls(comps, c, actions, msg) ==
    StoreCalls(comps[c].output_mapping, msg.fields, "set", << >>)
    \o ActionCalls(comps, actions, 1)

\* Line 132: the read of _data, made without the context's lock.
DataGet(t) ==
    /\ Running(t) /\ threads[t].at = "out" /\ Current(t).op = "data_get"
    /\ threads' = [threads EXCEPT ![t] = Return(@, ContextGet(data, Current(t).key))]
    /\ UNCHANGED <<lock, cli, stops, cleanup, pending, components, phase, dependencies, sorted,
                   data, main, events, cycles>>

\* What call j of thread t, a set or a set_out, stores: the value given, or
\* the parameter resolved with what the reads before it returned.
StoredValue(t, j) ==
    LET call == threads[t].prog[j]
        n    == Len(Placeholders(call.value))
    IN  IF call.op = "set" THEN call.value
        ELSE ResolveReads(call.value, Placeholders(call.value),
                          [i \in 1..n |-> threads[t].rets[j - n - 1 + i]], 1)

\* context.set of line 177 with a value that is not the result's.
SetOutBody_Truncated(t) ==
    /\ Running(t) /\ threads[t].at = "in" /\ Current(t).op = "set_out"
    /\ data' = ContextSet(data, Current(t).key, << >>)
    /\ lock' = 0
    /\ threads' = [threads EXCEPT ![t] = Return(@, NoneVal)]
    /\ UNCHANGED <<cli, stops, cleanup, pending, components, phase, dependencies, sorted,
                   main, events, cycles>>

\* context.set of line 177 (context.py 17-18) and the release of the lock.
SetOutBody(t) ==
    /\ Running(t) /\ threads[t].at = "in" /\ Current(t).op = "set_out"
    /\ data' = ContextSet(data, Current(t).key, StoredValue(t, threads[t].pc))
    /\ lock' = 0
    /\ threads' = [threads EXCEPT ![t] = Return(@, NoneVal)]
    /\ UNCHANGED <<cli, stops, cleanup, pending, components, phase, dependencies, sorted,
                   main, events, cycles>>

\* The reactive workflows whose callbacks run side by side: a trigger
\* publishing x with an action reading x and publishing y, with a second
\* action reading y, and with an action reading x and y.
ActionXandY == StepConfig("action", FALSE, NoTimeout, Tok(AliasX) \o <<"-">> \o Tok(AliasY), {})

CallbackWorkflows ==
    { <<TriggerForever, ActionXtoY>>,
      <<TriggerForever, ActionXtoY, ActionSink>>,
      <<TriggerForever, ActionXtoY, ActionXandY>> }

\* Thread t is the handler thread of the socket client that runs the
\* callback for the t-th message.
CallbackInit ==
    /\ components \in CallbackWorkflows
    /\ phase = "new"
    /\ dependencies = [c \in {} |-> {}]
    /\ sorted = NotCalled
    /\ data = EmptyData
    /\ main = MainIdle
    /\ events = << >>
    /\ cycles = << >>
    /\ cleanup = NoCleanup
    /\ pending = << >>
    /\ lock = 0
    /\ threads = [t \in 1..MaxThreads |->
                    NewThread(CallbackCalls(components, 1,
                                            [i \in 1..(Len(components) - 1) |-> i + 1],
                                            MessageData(MsgTexts[t])))]
    /\ cli = CliIdle
    /\ stops = << >>

CallbackNext ==
    \/ \E t \in DOMAIN threads : Acquire(t)
    \/ \E t \in DOMAIN threads : SetBody(t)
    \/ \E t \in DOMAIN threads : DataGet(t)
    \/ \E t \in DOMAIN threads : SetOutBody(t)

\* Every interleaving of the context accesses of MaxThreads callbacks.
SpecCallbacks == CallbackInit /\ [][CallbackNext]_vars

\* ------------------------------------------------------------------ the output mapping loop
\* Output mappings as Python keeps them: the <<result key, alias>> entries in
\* dict order, with distinct keys.  Two entries may name the same alias.
ResultKeys == {"out", "ts"}

OrderedMappings ==
    { << >> }
    \cup { << <<k, a>> >> : k \in ResultKeys, a \in {AliasX, AliasY} }
    \cup { << <<k[1], a1>>, <<k[2], a2>> >> :
              k \in {q \in ResultKeys \X ResultKeys : q[1] # q[2]},
              a1 \in {AliasX, AliasY}, a2 \in {AliasX, AliasY} }

\* result[key] for a result given as a set of <<key, value>> pairs.
ResultGet(fields, key) == (CHOOSE f \in fields : f[1] = key)[2]

\* Lines 174-177 with None stored for a key that is not in the result.
RECURSIVE StoreLoop_WritesAbsent(_, _, _, _)
StoreLoop_WritesAbsent(d, om, i, fields) ==
    IF i > Len(om) THEN d
    ELSE StoreLoop_WritesAbsent(
             ContextSet(d, om[i][2],
                        IF \E f \in fields : f[1] = om[i][1]
                        THEN ResultGet(fields, om[i][1]) ELSE NoneVal),
             om, i + 1, fields)

\* Lines 174-177 from entry i of the mapping on: for original_key, custom_key
\* in output_mapping.items(), context.set(custom_key, result[original_key])
\* when original_key is in the result.
RECURSIVE StoreLoop(_, _, _, _)
StoreLoop(d, om, i, fields) ==
    IF i > Len(om) THEN d
    ELSE StoreLoop(IF \E f \in fields : f[1] = om[i][1]
                   THEN ContextSet(d, om[i][2], ResultGet(fields, om[i][1]))
                   ELSE d,
                   om, i + 1, fields)

\* The results a step returns: no key, one of the keys, or both.
StoreResults ==
    { [success |-> ok, fields |-> fs, error |-> << >>] :
         ok \in BOOLEAN,
         fs \in { {}, {<<"out", <<"a">> >>}, {<<"ts", <<"b">> >>},
                  {<<"out", <<"a">> >>, <<"ts", <<"b">> >>} } }

\* The context before the dispatch: empty, or holding earlier values.
StoreContexts ==
    { EmptyData, ContextSet(EmptyData, AliasX, <<"p">>),
      ContextSet(ContextSet(EmptyData, AliasX, <<"p">>), <<"z">>, <<"q">>) }

StoreInit ==
    /\ components \in { <<StepConfig("action", FALSE, NoTimeout, <<"v">>, om)>> :
                           om \in OrderedMappings }
    /\ phase = "constructed"
    /\ dependencies = [c \in {} |-> {}]
    /\ sorted = NotCalled
    /\ data \in StoreContexts
    /\ main = MainIdle
    /\ events = << >>
    /\ cycles = << >>
    /\ cleanup = NoCleanup
    /\ pending = << >>
    /\ lock = 0
    /\ threads = << >>
    /\ cli = CliIdle
    /\ stops = << >>

\* _execute_component up to line 171: the step's execute returns a result.
StoreDispatch ==
    /\ main.pc = "idle"
    /\ \E r \in StoreResults :
          main' = [main EXCEPT
                     !.pc = "storing", !.cur = 1,
                     !.log = << LogEntry(1, components[1].input,
                                         Outcome(FALSE, r, FALSE, << >>), "batch") >>]
    /\ UNCHANGED <<lock, threads, cli, stops, cleanup, pending, components, phase, dependencies,
                   sorted, data, events, cycles>>

\* _execute_component, lines 173-180: the outputs are stored and the result
\* is returned.
StoreOutputMapping ==
    /\ main.pc = "storing"
    /\ data' = StoreLoop(data, components[main.cur].output_mapping, 1,
                         main.log[1].result.fields)
    /\ main' = [main EXCEPT !.pc = "stored",
                            !.results = ResultsPut(@, main.cur, main.log[1].result)]
    /\ UNCHANGED <<lock, threads, cli, stops, cleanup, pending, components, phase, dependencies,
                   sorted, events, cycles>>

StoreNext == StoreDispatch \/ StoreOutputMapping

\* One dispatch of a step, for every output mapping, result and context
\* above.
SpecStore == StoreInit /\ [][StoreNext]_vars

\* ------------------------------------------------------------------ graph notions used by the properties
\* The steps reachable from S along depends-on edges in at most k steps.
RECURSIVE Ancestors(_, _, _)
Ancestors(deps, S, k) ==
    IF k = 0 THEN S
    ELSE Ancestors(deps, S \cup UNION {deps[d] : d \in S \cap DOMAIN deps}, k - 1)

\* Some step depends, directly or not, on itself.
HasCycle(comps, deps) ==
    \E c \in DOMAIN deps : c \in Ancestors(deps, deps[c], Len(comps))

\* Position of step c in an order (0 when absent).
PosIn(order, c) ==
    IF \E i \in 1..Len(order) : order[i] = c
    THEN CHOOSE i \in 1..Len(order) : order[i] = c
    ELSE 0

\* `order` holds every step of comps exactly once.
IsPermutation(order, comps) ==
    /\ Len(order) = Len(comps)
    /\ \A c \in StepIds(comps) : \E i \in 1..Len(order) : order[i] = c

\* Every step of `order` comes after the steps it depends on.
RespectsDeps(order, deps) ==
    \A c \in DOMAIN deps : \A d \in deps[c] :
        PosIn(order, d) > 0 /\ PosIn(order, d) < PosIn(order, c)

\* Step b's parameter holds the text "{{alias}}" for an alias step a publishes.
References(comps, b, a) ==
    \E al \in MappingValues(comps[a].output_mapping) : Contains(comps[b].input, Tok(al))

\* The workflow with step a's output mapping removed.
WithoutMapping(comps, a) ==
    [i \in 1..Len(comps) |-> IF i = a THEN [comps[i] EXCEPT !.output_mapping = {}] ELSE comps[i]]

\* ------------------------------------------------------------------ C1
\* C1: for an acyclic dependency relation _topological_sort returns (does not
\* raise) an order that holds every step exactly once and puts every step
\* after all the steps it depends on.
C1_SortOrdersAcyclic ==
    (sorted.called /\ ~HasCycle(components, dependencies)) =>
        /\ sorted.ok
        /\ IsPermutation(sorted.order, components)
        /\ RespectsDeps(sorted.order, dependencies)

\* A sorted three-step workflow in which the first step in dict order depends
\* on two others, so the order differs from the dict order.
C1_Witness ==
    /\ sorted.called /\ sorted.ok
    /\ Len(components) = 3
    /\ 1 \in DOMAIN dependencies
    /\ Cardinality(dependencies[1]) = 2
    /\ sorted.order[3] = 1

C3_EdgeIffReference ==
    phase = "constructed" =>
        /\ \A b \in StepIds(components) : \A a \in StepIds(components) :
              (b \in DOMAIN dependencies /\ a \in dependencies[b])
                  <=> (a # b /\ References(components, b, a))
        /\ \A a \in StepIds(components) :
              LET g == BuildDependencyGraph(WithoutMapping(components, a))
              IN  \A b \in DOMAIN g : a \notin g[b]

\* A constructed workflow with an edge, a step whose own alias it references
\* (no self edge) and a step whose token has no producer.
C3_Witness ==
    /\ phase = "constructed"
    /\ Len(components) = 3
    /\ \E b \in DOMAIN dependencies : dependencies[b] # {}
    /\ \E c \in StepIds(components) : References(components, c, c)
    /\ \E c \in StepIds(components) :
          /\ FindAll(components[c].input) # << >>
          /\ c \notin DOMAIN dependencies

\* ------------------------------------------------------------------ notions used by the engine properties
\* A trigger step whose timeout is absent or -1.
IsPersistentTrigger(cfg) ==
    cfg.is_trigger /\ (cfg.timeout = NoTimeout \/ cfg.timeout = <<-1>>)

\* A trigger step with a finite timeout.
IsOneShotTrigger(cfg) == cfg.is_trigger /\ ~IsPersistentTrigger(cfg)

PersistentSteps == {c \in StepIds(components) : IsPersistentTrigger(components[c])}
OneShotSteps    == {c \in StepIds(components) : IsOneShotTrigger(components[c])}
OrdinarySteps   == {c \in StepIds(components) : ~components[c].is_trigger}

\* The steps of a log, in order.
StepsOf(log) == [i \in 1..Len(log) |-> log[i].step]

\* The subsequence of `order` of the steps in S.
RECURSIVE Restrict(_, _)
Restrict(order, S) ==
    IF order = << >> THEN << >>
    ELSE (IF Head(order) \in S THEN <<Head(order)>> ELSE << >>) \o Restrict(Tail(order), S)

\* The entries of the traditional loop in the log of execute().
BatchEntries == {j \in 1..Len(main.log) : main.log[j].via = "batch"}

\* The steps other than b that publish alias al.
Producers(al, b) ==
    {a \in StepIds(components) : a # b /\ al \in MappingValues(components[a].output_mapping)}

\* ------------------------------------------------------------------ C4
\* C4: in a batch run, when B is dispatched every step A whose alias B's
\* parameter references has already run in the loop; if B's parameter is
\* exactly {{al}}, A is the only publisher of al and A returned its output,
\* B is dispatched with that output value; and a batch run in which no step
\* raised returns success=true with a result for every step.
C4_BatchPassesOutput ==
    /\ \A j \in BatchEntries :
          LET b == main.log[j].step
          IN  \A a \in StepIds(components) :
                 (a # b /\ References(components, b, a)) =>
                    /\ \E i \in BatchEntries : i < j /\ main.log[i].step = a
                    /\ \A i \in BatchEntries, al \in MappingValues(components[a].output_mapping) :
                          ( /\ i < j /\ main.log[i].step = a
                            /\ components[b].input = Tok(al)
                            /\ Producers(al, b) = {a}
                            /\ <<"out", al>> \in components[a].output_mapping
                            /\ \E f \in main.log[i].result.fields : f[1] = "out" )
                          => \E f \in main.log[i].result.fields :
                                f[1] = "out" /\ main.log[j].input = Str(f[2])
    /\ (main.pc = "returned" /\ main.mode = "batch" /\ \A j \in BatchEntries : ~main.log[j].raised)
          => /\ main.ret.success
             /\ {e[1] : e \in main.ret.results} = StepIds(components)

\* The two-step run of the scenario with B first in dict order: A published
\* "v" under x, B was dispatched with "v", and execute() returned success.
C4_Witness ==
    /\ components = <<ActionXtoY, ActionSource>>
    /\ main.pc = "returned" /\ main.ret.success
    /\ Len(main.log) = 2
    /\ main.log[1].step = 2 /\ main.log[1].result.fields = {<<"out", <<"v">> >>}
    /\ main.log[2].step = 1 /\ main.log[2].input = <<"v">>
    /\ main.ret.context[AliasX] = <<"v">>

\* ------------------------------------------------------------------ C5
\* C5 as stated: a batch run that completes has dispatched every step,
\* one-shot triggers included, exactly once and in the topological order.
C5_BatchDispatchesEachOnce ==
    (main.pc = "returned" /\ main.mode = "batch" /\ main.ret.success)
        => StepsOf(main.log) = main.execution_order

C7_CallbackBeforeListener ==
    /\ \A e \in 1..Len(events) :
          (events[e].origin = "reactive" /\ events[e].thread # "none")
              => events[e].workflow_callback
    /\ \A k \in 1..Len(cycles) :
          events[cycles[k].event].origin = "reactive" => cycles[k].callback

\* A message handled by the listener while execute() is still in the sleep
\* after starting it.
C7_Witness ==
    /\ main.pc = "reactive_sleep"
    /\ \E k \in 1..Len(cycles) : cycles[k].event = main.cur /\ cycles[k].callback

\* ------------------------------------------------------------------ C8
\* C8: when execute() returns from the reactive path without a start having
\* raised, it returns success and reports the persistent triggers and the
\* action components; and as long as no message has been delivered, no
\* action component has been dispatched.
C8_ReactiveReturnsPromptly ==
    /\ (main.pc = "returned" /\ main.mode = "reactive" /\ main.ret.error # "exception") =>
          /\ main.ret.success /\ main.ret.reports
          /\ Range(main.ret.persistent_triggers) = PersistentSteps
          /\ Range(main.ret.action_components) = OrdinarySteps
    /\ (main.mode = "reactive" /\ cycles = << >>) =>
          \A j \in 1..Len(main.log) : main.log[j].step \notin OrdinarySteps

\* The scenario: one persistent trigger, one action that references its
\* alias; execute() has returned, the listener is connected, nothing was
\* delivered and nothing dispatched.
C8_Witness ==
    /\ components = <<TriggerForever, ActionXtoY>>
    /\ main.pc = "returned" /\ main.ret.success
    /\ 2 \in DOMAIN dependencies /\ dependencies[2] = {1}
    /\ main.ret.persistent_triggers = <<1>> /\ main.ret.action_components = <<2>>
    /\ Len(events) = 1 /\ events[1].thread = "connected"
    /\ cycles = << >> /\ main.log = << >>

C10_CycleRunsAllButPersistent ==
    \A k \in 1..Len(cycles) :
        (cycles[k].callback /\ cycles[k].pc = "done") =>
            StepsOf(cycles[k].log)
                = Restrict(main.execution_order, StepIds(components) \ PersistentSteps)

\* C10 amended: a callback invocation runs exactly the steps that are no
\* triggers at all (one-shot triggers are not run by the callback), each
\* once, sequentially, in the topological order.
C10_CycleRunsActions ==
    \A k \in 1..Len(cycles) :
        cycles[k].callback =>
            LET expected == Restrict(main.execution_order, OrdinarySteps)
            IN  /\ Len(cycles[k].log) <= Len(expected)
                /\ StepsOf(cycles[k].log) = SubSeq(expected, 1, Len(cycles[k].log))
                /\ cycles[k].pc = "done" => StepsOf(cycles[k].log) = expected

\* A finished cycle that ran two actions against their dict order.
C10_Witness ==
    /\ components = <<ActionSink, ActionXtoY, TriggerForever>>
    /\ Len(cycles) = 1 /\ cycles[1].pc = "done"
    /\ StepsOf(cycles[1].log) = <<2, 1>>

\* ------------------------------------------------------------------ C11
\* C11: a fault raised by an action in a callback cycle stays inside the
\* cycle: the listener that ran the cycle is still connected and listening,
\* the cycle itself goes on to its last action, and every later event runs
\* its callback over all action components.
C11_FaultStaysInCycle ==
    \A k \in 1..Len(cycles) :
        (\E j \in 1..Len(cycles[k].log) : cycles[k].log[j].raised) =>
            /\ events[cycles[k].event].thread = "connected"
            /\ events[cycles[k].event].is_listening
            /\ cycles[k].pc = "done" => StepsOf(cycles[k].log) = main.action_components
            /\ \A k2 \in (k + 1)..Len(cycles) :
                  /\ cycles[k2].callback
                  /\ cycles[k2].pc = "done"
                        => StepsOf(cycles[k2].log) = main.action_components

\* The first cycle has ended with its action raising; the second event then
\* ran a full cycle whose action returned the payload "n".
C11_Witness ==
    /\ components = <<TriggerForever, ActionXtoY>>
    /\ Len(cycles) = 2
    /\ cycles[1].pc = "done" /\ cycles[1].log[1].raised
    /\ cycles[2].pc = "done" /\ Len(cycles[2].log) = 1
    /\ ~cycles[2].log[1].raised /\ cycles[2].log[1].result.success
    /\ cycles[2].log[1].input = <<"n">>
    /\ IsRunning(events[1])

\* ------------------------------------------------------------------ C12
\* C12 as stated: once cleanup() has returned on a reactive run, once or
\* twice, no error was raised and every listener that execute() started is stopped: it is not
\* running and its stop was requested.
C12_CleanupStopsListeners ==
    (main.mode = "reactive" /\ cleanup.calls >= 1) =>
        /\ ~cleanup.raised
        /\ \A e \in 1..Len(events) :
              events[e].thread # "none"
                  => ~IsRunning(events[e]) /\ events[e].stop_event

\* ------------------------------------------------------------------ C13
\* C13: a call of cleanup(), on a workflow never executed or on one whose
\* listeners have ended as on any other, raises nothing, leaves the context
\* and the events execute() created as they are, and starts no listener
\* thread on the events it creates.
C13_CleanupIsNoOp ==
    [][ cleanup' # cleanup =>
          /\ ~cleanup'.raised
          /\ data' = data
          /\ events' = events
          /\ \A i \in 1..Len(cleanup'.made) :
                cleanup'.made[i].thread = "none" /\ ~IsRunning(cleanup'.made[i]) ]_vars

\* cleanup() has returned twice on a workflow with a trigger that was never
\* executed: nothing listens and the context is empty.
C13_Witness ==
    /\ components = <<TriggerForever, ActionXtoY>>
    /\ main.pc = "idle"
    /\ cleanup.calls = 2 /\ ~cleanup.raised
    /\ Len(cleanup.made) = 1 /\ cleanup.made[1].stop_event
    /\ events = << >> /\ data = EmptyData

\* ------------------------------------------------------------------ C14
\* C14: in a batch run a step that raises is the last step dispatched, and
\* execute() has returned success=false.
C14_BatchAbortsOnFault ==
    \A j \in BatchEntries :
        main.log[j].raised =>
            /\ j = Len(main.log)
            /\ main.pc = "returned"
            /\ ~main.ret.success

\* The second step of a chain of three raised: the third was not dispatched.
C14_Witness ==
    /\ components = <<ActionSource, ActionXtoY, ActionSink>>
    /\ main.pc = "returned" /\ ~main.ret.success
    /\ StepsOf(main.log) = <<1, 2>>
    /\ ~main.log[1].raised /\ main.log[2].raised

\* ------------------------------------------------------------------ C15
\* C15 as stated: the result of a batch run aborted by a fault holds the
\* results of the steps that completed before the fault and the context at
\* the time of the failure.
C15_AbortReturnsPartialResults ==
    (main.pc = "returned" /\ \E j \in BatchEntries : main.log[j].raised) =>
        /\ main.ret.results = main.results
        /\ main.ret.context = ContextGetAll(data)

\* C15 amended: the result of a batch run aborted by a fault holds
\* success=false, the error and the context at the time of the failure, with
\* the outputs the completed steps published; it holds no per-step results.
C15_AbortReturnsContextOnly ==
    (main.pc = "returned" /\ \E j \in BatchEntries : main.log[j].raised) =>
        /\ ~main.ret.success
        /\ main.ret.error = "exception"
        /\ main.ret.results = {}
        /\ main.ret.context = ContextGetAll(data)
        /\ \A j \in BatchEntries :
              \A p \in components[main.log[j].step].output_mapping :
                  (\E f \in main.log[j].result.fields : f[1] = p[1])
                      => p[2] \in DOMAIN main.ret.context

\* The second step raised after the first had published "v" under x: the
\* returned context holds it, the result of the first step is not returned.
C15_Witness ==
    /\ components = <<ActionSource, ActionXtoY, ActionSink>>
    /\ main.pc = "returned" /\ ~main.ret.success
    /\ Len(main.log) = 2 /\ main.log[2].raised
    /\ main.log[1].result.success
    /\ main.results # {} /\ main.ret.results = {}
    /\ AliasX \in DOMAIN main.ret.context
    /\ main.ret.context[AliasX] = <<"v">>

\* ------------------------------------------------------------------ C16
\* A dispatch of a one-shot trigger that ended at its deadline.
TimedOut(entry) ==
    /\ IsOneShotTrigger(components[entry.step])
    /\ ~entry.raised
    /\ entry.queued = << >>

C17_TimeoutResult ==
    \A j \in 1..Len(main.log) :
        (IsOneShotTrigger(components[main.log[j].step]) /\ ~main.log[j].raised) =>
            IF main.log[j].queued = << >>
            THEN /\ ~main.log[j].result.success
                 /\ \E i \in 1..Len(main.log[j].result.error) :
                       main.log[j].result.error[i]
                          = ToString(components[main.log[j].step].timeout[1])
            ELSE /\ main.log[j].result = Head(main.log[j].queued)
                 /\ main.log[j].result.success

\* The trigger with timeout 1 got a message in its first dispatch and none
\* in its second.
C17_Witness ==
    /\ components = <<TriggerOnce>>
    /\ Len(main.log) = 2
    /\ main.log[1].result = MessageData(OneShotText)
    /\ main.log[2].queued = << >>
    /\ main.log[2].result.error = <<"No matching message received within", "1", "seconds">>

\* ------------------------------------------------------------------ C18
\* A persistent trigger of the reactive path whose start has failed: its
\* execute() raised before a thread was started, or its listener thread
\* ended because the connection failed.
StartFailed(ev) == ev.origin = "reactive" /\ ev.thread \in {"none", "exited"}

\* C18 as stated: when execute() returns from the reactive path and the
\* start of some persistent trigger has failed by then, it returns
\* success=false and reports no persistent_triggers / action_components.
C18_StartFailureReported ==
    [][ ( /\ main.pc # "returned" /\ main'.pc = "returned"
          /\ main'.mode = "reactive"
          /\ \E e \in 1..Len(events) : StartFailed(events[e]) )
        => (~main'.ret.success /\ ~main'.ret.reports) ]_vars

\* ------------------------------------------------------------------ C19
\* C19 as stated: when execute() has returned success=false from the
\* reactive path, no listener it started is still active.
C19_FailedStartupStopsListeners ==
    (main.pc = "returned" /\ main.mode = "reactive" /\ ~main.ret.success) =>
        \A e \in 1..Len(events) :
            events[e].origin = "reactive" => ~IsRunning(events[e])

\* ------------------------------------------------------------------ C20
\* C20: for a workflow with a cyclic dependency relation execute() creates
\* no event, dispatches no step, starts no listener, runs no callback and
\* leaves the context empty; it returns the circular-dependency failure.
C20_NoPartialExecution ==
    (phase = "constructed" /\ HasCycle(components, dependencies)) =>
        /\ main.log = << >>
        /\ events = << >>
        /\ cycles = << >>
        /\ data = EmptyData
        /\ main.mode = "none"
        /\ main.pc \in {"idle", "returned"}
        /\ main.pc = "returned" =>
              /\ ~main.ret.success
              /\ main.ret.error = "Circular dependency detected in workflow"
              /\ main.ret.context = EmptyData

\* execute() has returned for the cycle of two actions beside a persistent
\* trigger that no action depends on.
C20_Witness ==
    /\ components = <<ActionXtoY, ActionYtoX, TriggerForever>>
    /\ HasCycle(components, dependencies)
    /\ main.pc = "returned" /\ ~main.ret.success
    /\ events = << >> /\ main.log = << >> /\ data = EmptyData

\* ------------------------------------------------------------------ C21
\* C21: constructing a workflow from a definition with no steps fails with
\* the error 'Workflow has no components', and such a workflow never starts:
\* execute() makes no step, nothing is dispatched, no event object exists
\* and the context stays empty.
C21_EmptyWorkflowFails ==
    (components = << >> /\ phase # "new")
        => /\ phase = "Workflow has no components"
           /\ main = MainIdle
           /\ events = << >>
           /\ cycles = << >>
           /\ data = EmptyData

C21_Witness ==
    /\ components = << >>
    /\ phase = "Workflow has no components"

\* ------------------------------------------------------------------ C22
\* The threads inside a `with self._lock` block.
InsideLock == {t \in DOMAIN threads : threads[t].at \in {"in", "in_get"}}

\* The keys the programs of the threads write with set and update.
KeysWritten ==
    UNION { {threads[t].prog[j].key : j \in {n \in 1..Len(threads[t].prog) :
                                                threads[t].prog[n].op = "set"}}
            \cup UNION { {it[1] : it \in Range(threads[t].prog[j].items)} :
                         j \in {n \in 1..Len(threads[t].prog) :
                                   threads[t].prog[n].op = "update"} }
            : t \in DOMAIN threads }

NoThreadClears ==
    \A t \in DOMAIN threads : \A j \in 1..Len(threads[t].prog) : threads[t].prog[j].op # "clear"

\* C22: set, get, update, get_all and clear are atomic with respect to each
\* other under every interleaving: at most one thread is inside the lock; no
\* snapshot shows one key of an update without the other; when no thread
\* clears, every thread that set its own key gets the value it set, and once
\* all threads are done the context holds exactly the keys written.
C22_ContextOpsAtomic ==
    /\ Cardinality(InsideLock) <= 1
    /\ \A t \in InsideLock : lock = t
    /\ \A t \in DOMAIN threads : \A j \in 1..Len(threads[t].rets) :
          threads[t].prog[j].op = "get_all"
              => (KeyU \in DOMAIN threads[t].rets[j] <=> KeyW \in DOMAIN threads[t].rets[j])
    /\ NoThreadClears =>
          /\ \A t \in DOMAIN threads : \A j \in 1..Len(threads[t].rets) :
                (threads[t].prog[j].op = "get" /\ threads[t].prog[j].key = KeyOf(t))
                    => threads[t].rets[j] = ValOf(t)
          /\ (\A t \in DOMAIN threads : ~Running(t))
                => /\ DOMAIN data = KeysWritten
                   /\ \A t \in DOMAIN threads :
                         threads[t].prog = SetGet(t) => data[KeyOf(t)] = ValOf(t)

\* Two threads that set and got their own keys are done.
C22_Witness ==
    /\ Len(threads) >= 2
    /\ \A t \in DOMAIN threads : threads[t].prog = SetGet(t) /\ ~Running(t)
    /\ \A t \in DOMAIN threads : threads[t].rets[2] = ValOf(t)
    /\ Cardinality(DOMAIN data) = Len(threads)

\* ------------------------------------------------------------------ C23
\* C23: the mapping get_all returned is not the context's storage: a step in
\* which a thread adds, replaces or removes a key in its mapping leaves the
\* context's data as it was, and a step of another thread (a set, an update,
\* a clear) leaves the content of the mapping as it was.
C23_SnapshotNotAliased ==
    [][\A t \in DOMAIN threads :
          /\ (/\ Running(t)
              /\ threads[t].at = "out"
              /\ Current(t).op \in {"copy_put", "copy_del"}
              /\ threads'[t] # threads[t]) => data' = data
          /\ (threads[t].copy.made /\ threads'[t] = threads[t])
                => ( (IF threads'[t].copy.alias THEN data' ELSE threads'[t].copy.obj)
                     = CopyView(t) )]_vars

\* A thread replaced the value of "u" in its snapshot and took the key "w"
\* out of it; the context still has both as the update wrote them.
C23_Witness ==
    /\ \E t \in DOMAIN threads :
          /\ threads[t].prog = Snapshot
          /\ threads[t].pc = 4
          /\ threads[t].copy.made
          /\ KeyU \in DOMAIN CopyView(t) /\ CopyView(t)[KeyU] = <<"z">>
          /\ KeyW \notin DOMAIN CopyView(t)
          /\ KeyW \in DOMAIN threads[t].rets[1]
    /\ {KeyU, KeyW} \subseteq DOMAIN data
    /\ data[KeyU] = <<"a">>

\* ------------------------------------------------------------------ C24
\* The text with every token whose identifier is a key of d replaced by the
\* value, and every other token and all other text kept.
Substituted(text, d) ==
    ReSub(text, [m \in 1..Len(FindAll(text)) |->
                    IF ContextGet(d, FindAll(text)[m]) # NoneVal
                    THEN Str(ContextGet(d, FindAll(text)[m]))
                    ELSE Tok(FindAll(text)[m])])

\* Call j of thread t is a call of `op`.
Calls(t, j, op) ==
    /\ t \in DOMAIN threads
    /\ j \in 1..Len(threads[t].prog)
    /\ threads[t].prog[j].op = op

\* The longest program of a thread.
MaxCalls == 3

\* No thread but t writes the context.
OnlyWriter(t) ==
    \A u \in DOMAIN threads \ {t} : \A j \in 1..Len(threads[u].prog) :
        threads[u].prog[j].op \notin {"set", "update", "clear"}

\* C24 as stated: every call of resolve_placeholders returns in the end, and
\* what it returns is the text with the tokens of present keys replaced by their
\* values and everything else kept.
C24_ResolveSubstitutes ==
    \A t \in 1..MaxThreads : \A j \in 1..MaxCalls :
        <>(Calls(t, j, "resolve_placeholders")
             => /\ Len(threads[t].rets) >= j
                /\ threads[t].rets[j] = Substituted(threads[t].prog[j].value, data))

\* ------------------------------------------------------------------ C25
\* C25 as stated: resolve_placeholders returns a text without tokens
\* unchanged, and resolving what it returned returns the same text (the
\* context being changed by no other thread in between).
C25_ResolveIdempotent ==
    \A t \in 1..MaxThreads : \A j \in 1..(MaxCalls - 1) :
        <>((Calls(t, j, "resolve_placeholders") /\ Calls(t, j + 1, "resolve_again")
                /\ OnlyWriter(t))
             => /\ Len(threads[t].rets) >= j + 1
                /\ threads[t].rets[j + 1] = threads[t].rets[j]
                /\ FindAll(threads[t].prog[j].value) = << >>
                      => threads[t].rets[j] = threads[t].prog[j].value)

\* ------------------------------------------------------------------ C26
\* resolve applied to every string leaf at every depth of dicts and lists.
RECURSIVE ResolveDeep(_, _)
ResolveDeep(value, d) ==
    CASE value.t = "str"  -> StrLeaf(Substituted(value.v, d))
      [] value.t = "dict" ->
             DictOf([j \in 1..Len(value.v) |->
                        << value.v[j][1], ResolveDeep(value.v[j][2], d) >>])
      [] value.t = "list" -> ListOf([i \in 1..Len(value.v) |-> ResolveDeep(value.v[i], d)])
      [] OTHER            -> value

\* C26 as stated: what resolve_config returned is its input with every string
\* leaf, at every depth of dicts and lists, resolved against the context.
C26_ResolveConfigDeep ==
    \A t \in DOMAIN threads : \A j \in 1..Len(threads[t].rets) :
        (threads[t].prog[j].op = "resolve_config" /\ OnlyWriter(t))
            => threads[t].rets[j] = ResolveDeep(DictOf(threads[t].prog[j].items), data).v

\* ------------------------------------------------------------------ C27
\* C27: when the command is interrupted (once) while it waits in the loop of
\* a reactive workflow that execute() started, it has called cleanup() on
\* the workflow exactly once, and that call has returned, when it returns.
C27_InterruptCleansUpOnce ==
    (cli.pc = "returned" /\ cli.handler = "inner" /\ cli.interrupts = 1)
        => /\ cli.started = 1
           /\ cleanup.calls = 1
           /\ main.pc = "returned" /\ main.ret.success /\ main.mode = "reactive"

\* The command returned after one interrupt in the wait loop, with the
\* listener of the workflow's trigger connected.
C27_Witness ==
    /\ cli.pc = "returned"
    /\ cli.handler = "inner"
    /\ cli.interrupts = 1
    /\ cli.started = 1
    /\ Len(events) = 1
    /\ events[1].thread = "connected"

\* ------------------------------------------------------------------ C28
\* C28 as stated: when an action raises in a callback cycle, the cycle ends
\* there, with no later action of the cycle dispatched, and the listener
\* that ran the cycle stays connected and listening.
C28_CycleEndsAtFault ==
    \A k \in 1..Len(cycles) : \A j \in 1..Len(cycles[k].log) :
        cycles[k].log[j].raised
            => /\ j = Len(cycles[k].log)
               /\ cycles[k].pc = "done"
               /\ events[cycles[k].event].thread = "connected"
               /\ events[cycles[k].event].is_listening

\* ------------------------------------------------------------------ C29
\* The state of the listener of an event object.
\*   Idle       no listener thread was started
\*   Starting   the thread runs and has not connected; no stop is requested
\*   Listening  connected, is_listening, no stop requested
\*   Stopping   the thread is alive and a stop is requested
\*   Stopped    the thread has ended
ListenerState(ev) ==
    IF ev.thread = "none" THEN "Idle"
    ELSE IF ev.thread = "exited" THEN "Stopped"
    ELSE IF ev.stop_event \/ (ev.thread = "connected" /\ ~ev.is_listening) THEN "Stopping"
    ELSE IF ev.thread = "started" THEN "Starting"
    ELSE "Listening"

\* The moves of the chain Idle -> Starting -> Listening -> Stopping -> Stopped.
ChainMoves ==
    { <<"Idle", "Starting">>, <<"Starting", "Listening">>, <<"Listening", "Stopping">>,
      <<"Stopping", "Stopped">> }

\* The moves that leave out states of the chain: a start that fails ends the
\* thread; a stop requested during the start.
SkippingMoves == { <<"Starting", "Stopped">>, <<"Starting", "Stopping">> }

\* In this step a message is handled by event e.
Fires(e) == Len(cycles') > Len(cycles) /\ cycles'[Len(cycles')].event = e

\* In this step stop_listening is called on event e.
StopRequested(e) == Len(stops') > Len(stops) /\ stops'[Len(stops')].event = e

\* C29 as stated: the listener of a persistent trigger only makes the moves
\* of the chain, an event firing while Listening leaves it in Listening, and
\* it leaves Listening only by a requested stop.
C29_ListenerFollowsChain ==
    [][\A e \in 1..Len(events) :
          LET s == ListenerState(events[e])
              n == ListenerState(events'[e])
          IN  /\ s # n => <<s, n>> \in ChainMoves
              /\ (s = "Listening" /\ Fires(e)) => n = "Listening"
              /\ (s = "Listening" /\ n # "Listening") => StopRequested(e)]_vars

\* C29 amended: the listener only moves forward along the chain, leaving out
\* Listening (and Stopping) when the connection fails or a stop is requested
\* during the start; an event firing while Listening leaves it in Listening;
\* it leaves Listening only by a call of stop_listening on it, and then
\* goes to Stopping.
C29_ListenerMovesForward ==
    [][\A e \in 1..Len(events) :
          LET s == ListenerState(events[e])
              n == ListenerState(events'[e])
          IN  /\ s # n => <<s, n>> \in ChainMoves \cup SkippingMoves
              /\ (s = "Listening" /\ Fires(e)) => n = "Listening"
              /\ (s = "Listening" /\ n # "Listening") => (StopRequested(e) /\ n = "Stopping")]_vars

\* A listener that handled a message was stopped by a call that has returned.
C29_Witness ==
    /\ Len(events) = 1 /\ Len(stops) = 1 /\ Len(cycles) = 1
    /\ ListenerState(events[1]) = "Stopped"
    /\ events[1].stop_event
    /\ stops[1].pc = "returned" /\ ~stops[1].timed_out
    /\ cycles[1].event = 1

\* ------------------------------------------------------------------ C30
\* C30 as stated: a call of stop_listening that returned before its bounded
\* wait elapsed has waited for the callbacks that were executing when it was
\* called: they have all ended.
C30_StopWaitsForCallbacks ==
    \A k \in 1..Len(stops) :
        (stops[k].pc = "returned" /\ ~stops[k].timed_out)
            => \A c \in stops[k].inflight : cycles[c].pc = "done"

\* ------------------------------------------------------------------ C31
\* C31 as stated: cleanup() always returns.  No call of cleanup() is left
\* blocked for ever, whatever the workflow and the context.
C31_CleanupTerminates ==
    cleanup.pc # "deadlock"

\* ------------------------------------------------------------------ C33
\* C33 as stated: when execute() has returned on a workflow without a
\* persistent trigger (a batch run, one-shot triggers included, whether they
\* received a message or timed out), no listener that one of its steps
\* started is still running.
C33_BatchLeavesNoListener ==
    (main.pc = "returned" /\ PersistentSteps = {})
        => \A e \in 1..Len(events) : ~IsRunning(events[e])

\* ------------------------------------------------------------------ C32
\* Thread t completes an access to the context's storage in this step: a
\* write of set, or the engine's read of a placeholder.
AccessesStorage(t) ==
    /\ Running(t)
    /\ Current(t).op \in {"set", "set_out", "data_get"}
    /\ threads'[t].pc = threads[t].pc + 1

\* C32 as stated: a callback thread reads or writes the context's storage
\* only inside a lock-protected operation, that is while it holds the
\* context's lock itself; in particular not while another thread holds it.
C32_AccessUnderLock ==
    [][\A t \in DOMAIN threads : AccessesStorage(t) => lock = t]_vars

\* ------------------------------------------------------------------ C35
\* The store calls thread t has completed on alias a.
StoresDone(t, a) ==
    {j \in 1..(threads[t].pc - 1) :
        threads[t].prog[j].op \in {"set", "set_out"} /\ threads[t].prog[j].key = a}

\* C35: with callbacks running side by side every alias of the context
\* holds, at every moment, the whole value that one completed store of one
\* of the callbacks wrote under it.
C35_ContextNotCorrupted ==
    \A a \in DOMAIN data :
        \E t \in DOMAIN threads : \E j \in StoresDone(t, a) : data[a] = StoredValue(t, j)

\* The cycle is not atomic: callback 1 stored the payload "m" under x, read x
\* for its action after callback 2 had stored "n" there, and published "n"
\* under y.
C35_Witness ==
    /\ components = <<TriggerForever, ActionXtoY>>
    /\ ~Running(1)
    /\ threads[1].prog[1] = Call("set", AliasX, MsgTexts[1])
    /\ threads[1].rets[2] = MsgTexts[2]
    /\ StoredValue(1, 3) = MsgTexts[2]
    /\ data[AliasY] = MsgTexts[2]

\* ------------------------------------------------------------------ C34
\* The entries of a mapping that name alias a and whose key is in the result.
EntriesFor(om, fields, a) ==
    {i \in 1..Len(om) : om[i][2] = a /\ \E f \in fields : f[1] = om[i][1]}

\* Alias a is left as it was: absent, or holding the same value.
Untouched(a) ==
    /\ (a \in DOMAIN data') = (a \in DOMAIN data)
    /\ a \in DOMAIN data => data'[a] = data[a]

\* C34 as stated: after the dispatch of a step that returned result R, for
\* every entry k -> a of its output mapping with k in R the context holds
\* R[k] under a, and every other key of the context is as it was before.
C34_EveryEntryStored ==
    [][ (main.pc = "storing" /\ main'.pc = "stored") =>
          LET om     == components[main.cur].output_mapping
              fields == main.log[1].result.fields
          IN  \A a \in DOMAIN data \cup DOMAIN data' \cup {om[i][2] : i \in 1..Len(om)} :
                 IF EntriesFor(om, fields, a) # {}
                 THEN \A i \in EntriesFor(om, fields, a) :
                         a \in DOMAIN data' /\ data'[a] = ResultGet(fields, om[i][1])
                 ELSE Untouched(a) ]_vars

\* C34 amended: under every alias a named by an entry whose key is in R the
\* context holds R[k] of the last such entry in the mapping's order; entries
\* whose key is not in R write nothing; every other key is as it was.
C34_LastEntryStored ==
    [][ (main.pc = "storing" /\ main'.pc = "stored") =>
          LET om     == components[main.cur].output_mapping
              fields == main.log[1].result.fields
          IN  \A a \in DOMAIN data \cup DOMAIN data' \cup {om[i][2] : i \in 1..Len(om)} :
                 LET es == EntriesFor(om, fields, a)
                 IN  IF es # {}
                     THEN LET last == CHOOSE i \in es : \A j \in es : j <= i
                          IN  a \in DOMAIN data' /\ data'[a] = ResultGet(fields, om[last][1])
                     ELSE Untouched(a) ]_vars

\* A result with one key of the mapping present and one absent was stored
\* into a context that held x and z: the present key's alias y holds its
\* value, x and z are as before.
C34_Witness ==
    /\ main.pc = "stored"
    /\ components[1].output_mapping = << <<"out", AliasY>>, <<"ts", AliasX>> >>
    /\ main.log[1].result.fields = {<<"out", <<"a">> >>}
    /\ data = ContextSet(ContextSet(ContextSet(EmptyData, AliasX, <<"p">>), <<"z">>, <<"q">>),
                         AliasY, <<"a">>)

\* ------------------------------------------------------------------ C36
\* C36 as stated: no thread is ever at a `with self._lock` of a context
\* operation while it holds the context's lock itself, the state from which
\* resolve_placeholders and resolve_config cannot return.
C36_NoReentrantRequest ==
    \A t \in DOMAIN threads : ~(WantsLock(t) /\ lock = t)

\* ------------------------------------------------------------------ C37
\* stop_listening has been called on event e.
StopCalled(e) == \E k \in 1..Len(stops) : stops[k].event = e

\* The test of slack.py 339: execute() starts a listener thread.
StartsThread(ev) == ~ev.is_listening

\* C37 as stated: however stop_listening interleaves with the start of the
\* listener thread, once it has been called on an event and the event's
\* listener thread has ended, is_listening is false and is_running() is
\* false, so that execute() on the event would start a new thread.
C37_StoppedListenerRestartable ==
    \A e \in 1..Len(events) :
        (StopCalled(e) /\ events[e].thread = "exited")
            => /\ ~events[e].is_listening
               /\ ~IsRunning(events[e])
               /\ StartsThread(events[e])

\* ------------------------------------------------------------------ C38
\* C38 as stated: for every configuration and context, resolve_config
\* returns, and returns what the engine's own resolution of the same
\* configuration against the same context yields (the context being changed
\* by no other thread).
C38_EngineResolvesAsContext ==
    \A t \in 1..MaxThreads : \A j \in 1..MaxCalls :
        <>((Calls(t, j, "resolve_config") /\ OnlyWriter(t))
             => /\ Len(threads[t].rets) >= j
                /\ threads[t].rets[j] = ResolveConfigManual(threads[t].prog[j].items, data))

\* ------------------------------------------------------------------ C39
\* C39: after construction a step that references an alias depends on every
\* other step that publishes this alias, and an order that the sort returns
\* has it after all of them.
C39_DependsOnEveryProducer ==
    phase = "constructed" =>
        \A c \in StepIds(components) : \A al \in Range(FindAll(components[c].input)) :
            \A o \in Producers(al, c) :
                /\ c \in DOMAIN dependencies /\ o \in dependencies[c]
                /\ (sorted.called /\ sorted.ok)
                      => (PosIn(sorted.order, o) > 0
                            /\ PosIn(sorted.order, o) < PosIn(sorted.order, c))

\* Steps 2 and 3 both publish x, step 1 reads x: step 1 depends on both and
\* the sort puts it last.
C39_Witness ==
    /\ phase = "constructed"
    /\ Len(components) = 3
    /\ components[1].input = Tok(AliasX) /\ components[1].output_mapping = {}
    /\ \A o \in {2, 3} : components[o].output_mapping = {<<"out", AliasX>>}
                           /\ components[o].input = <<"v">>
    /\ dependencies[1] = {2, 3}
    /\ sorted.called /\ sorted.ok /\ sorted.order = <<2, 3, 1>>

\* ------------------------------------------------------------------ C40
\* C40: in a returned batch run of a workflow without triggers, a step that
\* returned a result with success=false (it did not raise) is followed by the
\* dispatch of the next step of the order, and when no step raised every step
\* of the order was dispatched and execute() returned success=true with the
\* failed step's result among its results.
C40_FailureResultDoesNotAbort ==
    (main.pc = "returned" /\ \A c \in StepIds(components) : ~components[c].is_trigger) =>
        \A j \in BatchEntries :
            (~main.log[j].raised /\ ~main.log[j].result.success) =>
                /\ j < Len(main.execution_order)
                      => (Len(main.log) > j /\ main.log[j + 1].step = main.execution_order[j + 1])
                /\ (\A i \in BatchEntries : ~main.log[i].raised)
                      => /\ StepsOf(main.log) = main.execution_order
                         /\ main.ret.success
                         /\ <<main.log[j].step, main.log[j].result>> \in main.ret.results

\* The first step of a chain of three returned success=false; the two later
\* steps were dispatched and the run returned success=true.
C40_Witness ==
    /\ components = <<ActionSource, ActionXtoY, ActionSink>>
    /\ main.pc = "returned" /\ main.ret.success
    /\ StepsOf(main.log) = <<1, 2, 3>>
    /\ ~main.log[1].raised /\ ~main.log[1].result.success
    /\ main.log[2].result.success /\ main.log[3].result.success

====
